---- MODULE Spec2Model ----
(***************************************************************************)
(* Time-series synchronisation engine of office-space.                     *)
(*                                                                         *)
(* Two renditions of the VerticalTimeline controller are modelled:         *)
(*   "scroll"   - src/src/components/VerticalTimeline/index.tsx:1206-1390  *)
(*                (fetchSensorData(beforeDate, afterDate, isPreload) with  *)
(*                handleScroll)                                            *)
(*   "observer" - src/unnamed/part_001:1135-1293                           *)
(*                (fetchSensorData(afterDate, isPreload) with mergeData,   *)
(*                the preload timer and the intersection observer; the     *)
(*                rendition at part_001:135-353 has the same control flow) *)
(* together with the three merge routines as pure operators.               *)
(*                                                                         *)
(* Timestamps are whole numbers 1..MaxTime (getTime() of the row's date);  *)
(* NoDate stands for an undefined Date argument.  A DataPoint is the       *)
(* record [timestamp, value, sensorId]; the display-only fields period,    *)
(* isNew and normalizedValue are not modelled.                             *)
(***************************************************************************)
EXTENDS Integers, Sequences, FiniteSets, TLC

\* ---------------------------------------------------------------- bounds
MaxTime == 3
MaxBatch == 2
PageSize == 2
LoadingBuffer == 2
MaxInflight == 2

NoDate == 0
Times == 1..MaxTime
Values == {0, 1}

\* SENSOR_CONFIGS, cut down to its first two sensor ids
Sensors == {"avg_temp", "avg_hum"}
FirstSensor == "avg_temp"

Min2(a, b) == IF a <= b THEN a ELSE b
Max2(a, b) == IF a >= b THEN a ELSE b

\* ------------------------------------------------------- JS Map and sort
\* A Map<number, DataPoint> is the sequence of its entries in insertion
\* order, one entry per key.
MapHas(m, t) == \E i \in DOMAIN m : m[i].timestamp = t

\* Map.prototype.set: an existing key keeps its position and takes the new
\* entry, a new key is appended.
MapSet(m, p) ==
  IF MapHas(m, p.timestamp)
  THEN LET i == CHOOSE j \in DOMAIN m : m[j].timestamp = p.timestamp
       IN SubSeq(m, 1, i - 1) \o <<p>> \o SubSeq(m, i + 1, Len(m))
  ELSE Append(m, p)

\* new Map(points.map(p => [p.timestamp.getTime(), p]))
RECURSIVE NewMap(_)
NewMap(points) ==
  IF points = <<>> THEN <<>>
  ELSE MapSet(NewMap(SubSeq(points, 1, Len(points) - 1)), points[Len(points)])

\* one step of an insertion sort: p goes after every entry that is <= p
RECURSIVE InsertSorted(_, _)
InsertSorted(sorted, p) ==
  IF sorted = <<>> THEN <<p>>
  ELSE IF sorted[Len(sorted)].timestamp <= p.timestamp THEN Append(sorted, p)
  ELSE Append(InsertSorted(SubSeq(sorted, 1, Len(sorted) - 1), p), sorted[Len(sorted)])

\* Array.prototype.sort((a, b) => a.timestamp.getTime() - b.timestamp.getTime())
\* (stable, ascending)
RECURSIVE SortByTimestamp(_)
SortByTimestamp(points) ==
  IF points = <<>> THEN <<>>
  ELSE InsertSorted(SortByTimestamp(SubSeq(points, 1, Len(points) - 1)), points[Len(points)])

\* --------------------------------------------------------------- mergers
\* newPoints.forEach(point => { if (!pointMap.has(t)) pointMap.set(t, point) })
RECURSIVE AddAbsent(_, _)
AddAbsent(pointMap, newPoints) ==
  IF newPoints = <<>> THEN pointMap
  ELSE LET m == AddAbsent(pointMap, SubSeq(newPoints, 1, Len(newPoints) - 1))
           p == newPoints[Len(newPoints)]
       IN IF ~MapHas(m, p.timestamp) THEN MapSet(m, p) ELSE m

\* a faulty rendition: the new points are appended without the has() test
MergePoints_NoHasTest(existingPoints, newPoints) ==
  SortByTimestamp(existingPoints \o newPoints)

\* body of mergeData for one sensor (observer rendition)
MergePoints(existingPoints, newPoints) ==
  SortByTimestamp(AddAbsent(NewMap(existingPoints), newPoints))

\* mergeData(prevData, newData): every sensor of newData is merged, the
\* other keys of prevData are kept
mergeData(prevData, newData) ==
  [s \in (DOMAIN prevData) \cup (DOMAIN newData) |->
     IF s \in DOMAIN newData
     THEN MergePoints(IF s \in DOMAIN prevData THEN prevData[s] ELSE <<>>, newData[s])
     ELSE prevData[s]]

\* a faulty rendition: the trailing sort is missing
DedupPoints_NoSort(existingData, transformed) ==
  NewMap(existingData \o transformed)

\* body of the setData merge for one sensor (scroll rendition):
\* new Map([...existingData, ...transformed]) then sort
DedupPoints(existingData, transformed) ==
  SortByTimestamp(NewMap(existingData \o transformed))

\* setData((prev) => ...) of the scroll rendition
setDataMerge(prev, transformedData) ==
  [s \in (DOMAIN prev) \cup Sensors |->
     IF s \in Sensors
     THEN DedupPoints(IF s \in DOMAIN prev THEN prev[s] ELSE <<>>, transformedData[s])
     ELSE prev[s]]

\* useEnvironmentalData: rows whose time is already cached are filtered out
\* and the rest is appended to the cached array
uniqueNewData(cached, newDataFromSupabase) ==
  SelectSeq(newDataFromSupabase,
            LAMBDA d : ~(\E i \in DOMAIN cached : cached[i].time = d.time))

CombineCached(cached, newDataFromSupabase) ==
  cached \o uniqueNewData(cached, newDataFromSupabase)

\* ------------------------------------------------------------- variables
VARIABLES
  variant,            \* which rendition of VerticalTimeline runs
  remoteRows,         \* timestamps of the rows of the remote table
  data,               \* useState: sensorId -> DataPoint[]
  dateRanges,         \* useState: sensorId -> {earliest, latest}
  isLoading,          \* useState
  isPreloading,       \* useState
  error,              \* useState: NoError or a message
  sinceLastLoad,      \* Date.now() - lastLoadTime.current, saturating at LoadingBuffer
  preloadTimer,       \* preloadTimer.current: the pending setTimeout and what it closes over
  inflight,           \* calls of fetchSensorData suspended at `await query`
  effectPending,      \* fetchSensorData was re-created; the mount effect has not run yet
  last,               \* history: what the latest handler did
  sinceBoundaryLoad,  \* history: time since a boundary handler last started a query
  mWhich, mExisting, mIncoming, mOnce, mTwice, mPc,  \* the merge harness
  \* useEnvironmentalData (layout.ts)
  envRemote,          \* rows of the remote table environmental_data, in table order
  store,              \* IndexedDB: the entry of object store "sensors" under the column key
  db,                 \* useState: the opened database, or null
  envData,            \* useState: the series exposed to the consumer
  loading,            \* useState
  envError,           \* useState
  envPc,              \* where fetchData() is suspended
  cachedData,         \* fetchData: what getFromStore resolved to
  startTime,          \* fetchData: the cursor given to fetchDataFromSupabase
  newData,            \* fetchData: the array given to interpolateData, as it is afterwards
  processedData,      \* fetchData: what interpolateData returned
  envLast,            \* history: the latest asynchronous operation and how it ended
  \* the densifiers (Visualization geometry, TempVisualization interpolateData)
  dInput,             \* the series given to the component
  dGeometry,          \* per rendered day, the value of every minute slot of the geometry
  dInterpolated,      \* what interpolateData of TempVisualization returns
  dPc,                \* "off", "start", "geometry", "interpolateData" or "done"
  \* normalization (VerticalTimeline normalizeValue / getNormalizedData)
  nSensor,            \* the sensor id of the series
  nRange,             \* the range its descriptor configures
  nPoints,            \* the points of the series
  nOut,               \* the points with their normalizedValue
  nPc,                \* "off", "start", or which routine produced nOut
  \* the page loop of fetchDataFromSupabase / fetchData
  pOrdered,           \* TRUE when the query orders by time
  pTable,             \* the remote table
  pFrom,              \* startTime, or NoDate
  pPage,              \* page
  pAllData,           \* allData
  pRequests,          \* history: how many pages were requested
  pExposed,           \* what the caller got
  pPc,                \* "off", "loop", "returned", "thrown" or "settled"
  \* the image preloader (Visualization_v2)
  preloadState,       \* preloadState
  imageCache,         \* imageCacheRef: the periods whose image is cached
  currentTimePeriod,  \* currentTimePeriod
  imageCalls,         \* the fetchImageData calls that are suspended at an await
  imagePc,            \* "off", "mount", "priority", "parallel": where loadPriorityData is
  \* useEnvironmentalData when its column changes
  column,             \* the column prop of the current render
  mounted,            \* FALSE once the component unmounted
  fetchCalls,         \* the fetchData() calls suspended at an await, oldest first
  shownData,          \* data
  shownError,         \* error
  shownLoading,       \* loading
  columnChanges,      \* history: how often the column changed
  anyFailed           \* history: some fetchData() call failed

timelineVars == <<variant, remoteRows, data, dateRanges, isLoading, isPreloading, error,
                  sinceLastLoad, preloadTimer, inflight, effectPending, last,
                  sinceBoundaryLoad>>
mergeVars == <<mWhich, mExisting, mIncoming, mOnce, mTwice, mPc>>
envVars == <<envRemote, store, db, envData, loading, envError, envPc, cachedData,
             startTime, newData, processedData, envLast>>
densifyVars == <<dInput, dGeometry, dInterpolated, dPc>>
normVars == <<nSensor, nRange, nPoints, nOut, nPc>>
pageVars == <<pOrdered, pTable, pFrom, pPage, pAllData, pRequests, pExposed, pPc>>
imageVars == <<preloadState, imageCache, currentTimePeriod, imageCalls, imagePc>>
columnVars == <<column, mounted, fetchCalls, shownData, shownError, shownLoading, columnChanges, anyFailed>>
vars == <<variant, remoteRows, data, dateRanges, isLoading, isPreloading, error,
          sinceLastLoad, preloadTimer, inflight, effectPending, last,
          sinceBoundaryLoad, mWhich, mExisting, mIncoming, mOnce, mTwice, mPc,
          envRemote, store, db, envData, loading, envError, envPc, cachedData,
          startTime, newData, processedData, envLast,
          dInput, dGeometry, dInterpolated, dPc,
          nSensor, nRange, nPoints, nOut, nPc,
          pOrdered, pTable, pFrom, pPage, pAllData, pRequests, pExposed, pPc,
          preloadState, imageCache, currentTimePeriod, imageCalls, imagePc,
          column, mounted, fetchCalls, shownData, shownError, shownLoading, columnChanges, anyFailed>>

NoError == "null"
NoLimit == 0

\* ---------------------------------------------------------- remote table
\* Number(row[config.sensorId]) of the row stamped t
RowValue(t, s) == IF s = FirstSensor THEN t % 2 ELSE (t + 1) % 2

RECURSIVE Ascending(_)
Ascending(S) ==
  IF S = {} THEN <<>>
  ELSE LET m == CHOOSE x \in S : \A y \in S : x <= y
       IN <<m>> \o Ascending(S \ {m})

RECURSIVE Reverse(_)
Reverse(seq) == IF seq = <<>> THEN <<>> ELSE Append(Reverse(Tail(seq)), Head(seq))

\* the rows the remote store answers a query with:
\* .lt(before) .gt(after) .order(ascending) .limit(limit)
Rows(q) ==
  LET matching == {t \in remoteRows : /\ (q.before = NoDate \/ t < q.before)
                                      /\ (q.after = NoDate \/ t > q.after)}
      ordered == IF q.ascending THEN Ascending(matching) ELSE Reverse(Ascending(matching))
  IN IF q.limit = NoLimit THEN ordered
     ELSE SubSeq(ordered, 1, Min2(q.limit, Len(ordered)))

\* transformedData[config.sensorId] = rawData.map(row => ({timestamp, value, sensorId}))
RECURSIVE Transform(_, _)
Transform(rows, s) ==
  IF rows = <<>> THEN <<>>
  ELSE <<[timestamp |-> Head(rows), value |-> RowValue(Head(rows), s), sensorId |-> s]>>
         \o Transform(Tail(rows), s)

transformedDataOf(rows) == [s \in Sensors |-> Transform(rows, s)]

SeqMin(seq) == CHOOSE x \in {seq[i] : i \in DOMAIN seq} : \A i \in DOMAIN seq : x <= seq[i]
SeqMax(seq) == CHOOSE x \in {seq[i] : i \in DOMAIN seq} : \A i \in DOMAIN seq : x >= seq[i]

\* ------------------------------------------------------------- closures
\* What a fetchSensorData created in a render closes over: that render's
\* dateRanges.  earliest/latest are the Math.min/Math.max over its ranges.
ClosureOf(ranges) ==
  [hasRanges |-> DOMAIN ranges # {},
   earliest |-> IF DOMAIN ranges = {} THEN NoDate
                ELSE CHOOSE e \in {ranges[s].earliest : s \in DOMAIN ranges} :
                       \A s \in DOMAIN ranges : e <= ranges[s].earliest,
   latest |-> IF DOMAIN ranges = {} THEN NoDate
              ELSE CHOOSE l \in {ranges[s].latest : s \in DOMAIN ranges} :
                     \A s \in DOMAIN ranges : l >= ranges[s].latest]

NoTimer == [armed |-> FALSE, before |-> NoDate, after |-> NoDate,
            isLoading |-> FALSE, isPreloading |-> FALSE, closure |-> ClosureOf(<<>>)]

\* Object.values(data)[0] || []
sensorDataOf(d) == IF FirstSensor \in DOMAIN d THEN d[FirstSensor] ELSE <<>>

\* ------------------------------------------ fetchSensorData, up to await
\* a faulty rendition: the loading buffer is not consulted
Throttled_Never(isPreload) == FALSE

\* loading buffer: now - lastLoadTime.current < loadingBuffer && !isPreload
Throttled(isPreload) == sinceLastLoad < LoadingBuffer /\ ~isPreload

\* scroll rendition: "Check if we already have data for this range"
AlreadyHeld(beforeDate, afterDate, closure) ==
  /\ closure.hasRanges
  /\ \/ (beforeDate # NoDate /\ beforeDate >= closure.earliest)
     \/ (afterDate # NoDate /\ afterDate <= closure.latest)

\* scroll rendition: the query that is built
ScrollQuery(beforeDate, afterDate) ==
  [before |-> beforeDate, after |-> afterDate, limit |-> PageSize,
   ascending |-> (afterDate # NoDate)]

\* observer rendition: the query that is built
ObserverQuery(afterDate, closure) ==
  IF ~closure.hasRanges
  THEN [before |-> NoDate, after |-> NoDate, limit |-> PageSize, ascending |-> TRUE]
  ELSE IF afterDate # NoDate
  THEN [before |-> NoDate, after |-> afterDate, limit |-> PageSize, ascending |-> TRUE]
  ELSE [before |-> NoDate, after |-> NoDate, limit |-> NoLimit, ascending |-> TRUE]

BoundaryOrigins == {"scroll", "scrollTimer", "observer"}

\* The synchronous part of one call of fetchSensorData, from a handler
\* `origin`, by a function closing over `closure`.  It ends throttled, held
\* (range already held) or suspended at the await with a query in flight.
StartFetch(beforeDate, afterDate, isPreload, closure, origin) ==
  LET outcome == IF Throttled(isPreload) THEN "throttled"
                 ELSE IF variant = "scroll" /\ AlreadyHeld(beforeDate, afterDate, closure)
                 THEN "held"
                 ELSE "query"
      query == IF variant = "scroll" THEN ScrollQuery(beforeDate, afterDate)
               ELSE ObserverQuery(afterDate, closure)
  IN /\ sinceLastLoad' = IF outcome = "throttled" THEN sinceLastLoad ELSE 0
     /\ inflight' = IF outcome = "query"
                    THEN Append(inflight, [query |-> query, afterDate |-> afterDate,
                                           isPreload |-> isPreload, closure |-> closure,
                                           origin |-> origin])
                    ELSE inflight
     /\ isLoading' =
          IF outcome = "query"
          THEN IF variant = "scroll"
               THEN (IF ~closure.hasRanges \/ ~isPreload THEN TRUE ELSE isLoading)
               ELSE (IF ~isPreload THEN TRUE ELSE isLoading)
          ELSE (IF ~isPreload THEN FALSE ELSE isLoading)
     /\ isPreloading' =
          IF outcome = "query"
          THEN (IF isPreload THEN TRUE ELSE isPreloading)
          ELSE (IF isPreload THEN FALSE ELSE isPreloading)
     /\ sinceBoundaryLoad' = IF outcome = "query" /\ origin \in BoundaryOrigins
                             THEN 0 ELSE sinceBoundaryLoad
     /\ last' = [op |-> "fetch", origin |-> origin, outcome |-> outcome,
                 rows |-> 0, newest |-> NoDate, isPreload |-> isPreload]

\* ------------------------------------- fetchSensorData, after the await
\* setDateRanges((prev) => ...) of the scroll rendition
ScrollRanges(prev, newEarliest, newLatest) ==
  [s \in (DOMAIN prev) \cup Sensors |->
     IF s \in Sensors
     THEN [earliest |-> IF s \in DOMAIN prev THEN Min2(prev[s].earliest, newEarliest)
                        ELSE newEarliest,
           latest |-> IF s \in DOMAIN prev THEN Max2(prev[s].latest, newLatest)
                      ELSE newLatest]
     ELSE prev[s]]

\* setDateRanges((prev) => ...) of the observer rendition
ObserverRanges(prev, newEarliest, newLatest, afterDate) ==
  [s \in (DOMAIN prev) \cup Sensors |->
     IF s \notin DOMAIN prev THEN [earliest |-> newEarliest, latest |-> newLatest]
     ELSE IF s \in Sensors /\ afterDate # NoDate
     THEN [earliest |-> prev[s].earliest, latest |-> Max2(newLatest, prev[s].latest)]
     ELSE prev[s]]

\* a faulty rendition: the !isPreload test is missing
SchedulesPreload_AnyFetch(rows, isPreload) == Len(rows) = PageSize

\* observer rendition: typedRawData.length === pageSize && !isPreload
SchedulesPreload(rows, isPreload) == Len(rows) = PageSize /\ ~isPreload

RemoveAt(seq, i) == SubSeq(seq, 1, i - 1) \o SubSeq(seq, i + 1, Len(seq))

\* The remote store answers the i-th suspended call: the rest of
\* fetchSensorData runs (throw / return on no rows / merge), then finally.
Complete(i, failed) ==
  LET call == inflight[i]
      rows == Rows(call.query)
      got == ~failed /\ rows # <<>>
  IN /\ ~effectPending
     /\ mPc = "off"
     /\ i \in DOMAIN inflight
     /\ inflight' = RemoveAt(inflight, i)
     /\ error' = IF failed THEN "query failed" ELSE error
     /\ data' = IF ~got THEN data
                ELSE IF variant = "scroll" THEN setDataMerge(data, transformedDataOf(rows))
                ELSE mergeData(data, transformedDataOf(rows))
     /\ dateRanges' = IF ~got THEN dateRanges
                      ELSE IF variant = "scroll"
                      THEN ScrollRanges(dateRanges, SeqMin(rows), SeqMax(rows))
                      ELSE ObserverRanges(dateRanges, SeqMin(rows), SeqMax(rows), call.afterDate)
     /\ preloadTimer' = IF got /\ variant = "observer" /\ SchedulesPreload(rows, call.isPreload)
                        THEN [NoTimer EXCEPT !.armed = TRUE, !.after = SeqMax(rows),
                                             !.closure = call.closure]
                        ELSE preloadTimer
     /\ isLoading' = IF call.isPreload THEN isLoading ELSE FALSE
     /\ isPreloading' = IF call.isPreload THEN FALSE ELSE isPreloading
     \* a new dateRanges object re-creates fetchSensorData: the mount effect re-runs
     /\ effectPending' = got
     /\ last' = [op |-> "complete", origin |-> call.origin,
                 outcome |-> IF failed THEN "error" ELSE IF got THEN "ok" ELSE "empty",
                 rows |-> IF failed THEN 0 ELSE Len(rows),
                 newest |-> IF got THEN SeqMax(rows) ELSE NoDate,
                 isPreload |-> call.isPreload]
     /\ UNCHANGED <<variant, remoteRows, sinceLastLoad, sinceBoundaryLoad>>
     /\ UNCHANGED <<mergeVars, envVars, densifyVars, normVars, pageVars, imageVars, columnVars>>

\* useEffect(() => { fetchSensorData(); }, [fetchSensorData])
MountEffect ==
  /\ effectPending
  /\ mPc = "off"
  /\ StartFetch(NoDate, NoDate, FALSE, ClosureOf(dateRanges), "mount")
  /\ effectPending' = FALSE
  /\ UNCHANGED <<variant, remoteRows, data, dateRanges, error, preloadTimer>>
  /\ UNCHANGED <<mergeVars, envVars, densifyVars, normVars, pageVars, imageVars, columnVars>>

\* observer rendition: the preload timer set by a completed fetch fires
\* fetchSensorData(latestTimestamp, true) of the function that set it
PreloadTimerFire ==
  /\ variant = "observer"
  /\ ~effectPending
  /\ mPc = "off"
  /\ preloadTimer.armed
  /\ Len(inflight) < MaxInflight
  /\ StartFetch(NoDate, preloadTimer.after, TRUE, preloadTimer.closure, "preload")
  /\ preloadTimer' = NoTimer
  /\ UNCHANGED <<variant, remoteRows, data, dateRanges, error, effectPending>>
  /\ UNCHANGED <<mergeVars, envVars, densifyVars, normVars, pageVars, imageVars, columnVars>>

\* observer rendition: bottomObserverCallback with an intersecting entry
ObserverFire ==
  /\ variant = "observer"
  /\ ~effectPending
  /\ mPc = "off"
  /\ ~isLoading /\ ~isPreloading
  /\ sensorDataOf(data) # <<>>
  /\ Len(inflight) < MaxInflight
  /\ LET sensorData == sensorDataOf(data)
         newestDate == sensorData[Len(sensorData)].timestamp
     IN StartFetch(NoDate, newestDate, FALSE, ClosureOf(dateRanges), "observer")
  /\ UNCHANGED <<variant, remoteRows, data, dateRanges, error, preloadTimer, effectPending>>
  /\ UNCHANGED <<mergeVars, envVars, densifyVars, normVars, pageVars, imageVars, columnVars>>

\* scroll rendition: handleScroll.  The pending timer is cleared; with no
\* data held or away from both boundaries nothing more happens.  Very close
\* to a boundary (within 100 px, hence within preloadThreshold): loadData(false)
\* at once; otherwise the 150 ms preload timer is set, closing over this
\* render's isLoading, isPreloading, data and fetchSensorData.
HandleScroll(isNearTop, isNearBottom, veryClose) ==
  /\ variant = "scroll"
  /\ ~effectPending
  /\ mPc = "off"
  /\ veryClose => (isNearTop \/ isNearBottom)
  /\ Len(inflight) < MaxInflight
  /\ IF sensorDataOf(data) = <<>> \/ ~(isNearTop \/ isNearBottom)
     THEN /\ preloadTimer' = NoTimer
          /\ last' = [op |-> "scroll", origin |-> "scroll", outcome |-> "none",
                      rows |-> 0, newest |-> NoDate, isPreload |-> FALSE]
          /\ UNCHANGED <<isLoading, isPreloading, sinceLastLoad, inflight,
                         sinceBoundaryLoad>>
     ELSE LET sensorData == sensorDataOf(data)
              newestDate == sensorData[Len(sensorData)].timestamp
              oldestDate == sensorData[1].timestamp
              beforeDate == IF isNearTop THEN NoDate ELSE oldestDate
              afterDate == IF isNearTop THEN newestDate ELSE NoDate
          IN IF veryClose
             THEN /\ StartFetch(beforeDate, afterDate, FALSE, ClosureOf(dateRanges), "scroll")
                  /\ preloadTimer' = NoTimer
             ELSE /\ preloadTimer' = [armed |-> TRUE, before |-> beforeDate,
                                      after |-> afterDate,
                                      isLoading |-> isLoading, isPreloading |-> isPreloading,
                                      closure |-> ClosureOf(dateRanges)]
                  /\ last' = [op |-> "arm", origin |-> "scroll", outcome |-> "armed",
                              rows |-> 0, newest |-> NoDate, isPreload |-> TRUE]
                  /\ UNCHANGED <<isLoading, isPreloading, sinceLastLoad, inflight,
                                 sinceBoundaryLoad>>
  /\ UNCHANGED <<variant, remoteRows, data, dateRanges, error, effectPending>>
  /\ UNCHANGED <<mergeVars, envVars, densifyVars, normVars, pageVars, imageVars, columnVars>>

\* scroll rendition: the 150 ms timer fires
\* if (!isLoading && !isPreloading) loadData(true)
ScrollTimerFire ==
  /\ variant = "scroll"
  /\ ~effectPending
  /\ mPc = "off"
  /\ preloadTimer.armed
  /\ Len(inflight) < MaxInflight
  /\ IF ~preloadTimer.isLoading /\ ~preloadTimer.isPreloading
     THEN StartFetch(preloadTimer.before, preloadTimer.after, TRUE, preloadTimer.closure,
                     "scrollTimer")
     ELSE /\ last' = [op |-> "fetch", origin |-> "scrollTimer", outcome |-> "skipped",
                      rows |-> 0, newest |-> NoDate, isPreload |-> TRUE]
          /\ UNCHANGED <<isLoading, isPreloading, sinceLastLoad, inflight, sinceBoundaryLoad>>
  /\ preloadTimer' = NoTimer
  /\ UNCHANGED <<variant, remoteRows, data, dateRanges, error, effectPending>>
  /\ UNCHANGED <<mergeVars, envVars, densifyVars, normVars, pageVars, imageVars, columnVars>>

\* ------------------------------------------------------------ environment
\* time passes
Tick ==
  /\ variant # "none"
  /\ ~effectPending
  /\ mPc = "off"
  /\ sinceLastLoad' = Min2(sinceLastLoad + 1, LoadingBuffer)
  /\ sinceBoundaryLoad' = Min2(sinceBoundaryLoad + 1, LoadingBuffer)
  /\ UNCHANGED <<variant, remoteRows, data, dateRanges, isLoading, isPreloading, error,
                 preloadTimer, inflight, effectPending, last>>
  /\ UNCHANGED <<mergeVars, envVars, densifyVars, normVars, pageVars, imageVars, columnVars>>

\* the sensor station writes the next row
RemoteInsert ==
  /\ variant # "none"
  /\ ~effectPending
  /\ mPc = "off"
  /\ Cardinality(remoteRows) < MaxTime
  /\ remoteRows' = remoteRows \cup {Cardinality(remoteRows) + 1}
  /\ UNCHANGED <<variant, data, dateRanges, isLoading, isPreloading, error, sinceLastLoad,
                 preloadTimer, inflight, effectPending, last, sinceBoundaryLoad>>
  /\ UNCHANGED <<mergeVars, envVars, densifyVars, normVars, pageVars, imageVars, columnVars>>

\* ------------------------------------------- useEnvironmentalData: data
\* A time is a whole number of minutes since 31 December 00:00 of the
\* browser's clock, taken to run on UTC.  An EnvironmentalData sample is the
\* record [time, value]; a row of the remote table is [time, isNull, raw]
\* where isNull says that the column holds null.
MaxRows == 4
FetchPageSize == 2
MinutesPerDay == 1440
MinutesPerHour == 60
pstOffset == -8
MarginMinutes == 5

At(day, hour, minute) == day * MinutesPerDay + hour * MinutesPerHour + minute

\* d.time.getDate() === 1 && d.time.getMonth() === 0
IsJan1(t) == t \div MinutesPerDay = 1
\* d.time.getDate() === 2 && d.time.getMonth() === 0
IsJan2(t) == t \div MinutesPerDay = 2
\* `${getHours()}:${getMinutes()}`
timeKey(t) == t % MinutesPerDay
\* newDate.setDate(1) of a 2 January date
SetDate1(t) == At(1, 0, 0) + timeKey(t)

\* localDate.setHours(localDate.getHours() + pstOffset)
convertToLocalTime(utcDate) == utcDate + pstOffset * MinutesPerHour

\* the instants at which the station can have written a row, as the local
\* times they are converted to: 1 Jan 10:00, 2 Jan 10:00, 2 Jan 10:03,
\* 3 Jan 10:00, 3 Jan 10:04, 4 Jan 10:00
LocalTimes == <<At(1, 10, 0), At(2, 10, 0), At(2, 10, 3), At(3, 10, 0), At(3, 10, 4),
                At(4, 10, 0)>>
RowTime(i) == LocalTimes[i] - pstOffset * MinutesPerHour

\* a non-zero reading, a power of two so that the repeated halving of the
\* zero pass stays exact
SampleValue == 2 ^ MaxRows
RawCells == {[isNull |-> TRUE, raw |-> 0], [isNull |-> FALSE, raw |-> 0],
             [isNull |-> FALSE, raw |-> SampleValue]}

\* every remote table of at most MaxRows rows
Tables ==
  UNION {{[i \in 1..n |-> [time |-> RowTime(i), isNull |-> f[i].isNull, raw |-> f[i].raw]] :
            f \in [1..n -> RawCells]} : n \in 0..MaxRows}

\* Array.prototype.sort((a, b) => a.time.getTime() - b.time.getTime())
RECURSIVE InsertByTime(_, _)
InsertByTime(sorted, d) ==
  IF sorted = <<>> THEN <<d>>
  ELSE IF sorted[Len(sorted)].time <= d.time THEN Append(sorted, d)
  ELSE Append(InsertByTime(SubSeq(sorted, 1, Len(sorted) - 1), d), sorted[Len(sorted)])

RECURSIVE SortByTime(_)
SortByTime(samples) ==
  IF samples = <<>> THEN <<>>
  ELSE InsertByTime(SortByTime(SubSeq(samples, 1, Len(samples) - 1)), samples[Len(samples)])

\* Math.max(...cachedData.map(d => d.time.getTime()))
RECURSIVE LatestTime(_)
LatestTime(samples) ==
  IF Len(samples) = 1 THEN samples[1].time
  ELSE Max2(LatestTime(SubSeq(samples, 1, Len(samples) - 1)), samples[Len(samples)].time)

\* ------------------------------------------------------ interpolateData
\* jan2Data.forEach: an entry of 2 January whose hour:minute no entry of
\* 1 January has is copied to 1 January
RECURSIVE Jan2Copies(_, _)
Jan2Copies(jan1Data, jan2Data) ==
  IF jan2Data = <<>> THEN <<>>
  ELSE LET jan2Entry == jan2Data[Len(jan2Data)]
           before == Jan2Copies(jan1Data, SubSeq(jan2Data, 1, Len(jan2Data) - 1))
       IN IF ~(\E i \in DOMAIN jan1Data : timeKey(jan1Data[i].time) = timeKey(jan2Entry.time))
          THEN Append(before, [time |-> SetDate1(jan2Entry.time), value |-> jan2Entry.value])
          ELSE before

\* what `interpolated` holds when the 1 January part is done
Jan1Part(series) ==
  LET jan1Data == SelectSeq(series, LAMBDA d : IsJan1(d.time))
      jan2Data == SelectSeq(series, LAMBDA d : IsJan2(d.time))
  IN IF Len(jan1Data) > 0 THEN SortByTime(jan1Data \o Jan2Copies(jan1Data, jan2Data))
     ELSE <<>>

\* while (nextIndex < length && nonJan1Data[nextIndex].value === 0) nextIndex++
RECURSIVE NextNonZero(_, _)
NextNonZero(nonJan1Data, nextIndex) ==
  IF nextIndex <= Len(nonJan1Data) /\ nonJan1Data[nextIndex].value = 0
  THEN NextNonZero(nonJan1Data, nextIndex + 1)
  ELSE nextIndex

\* the loop over nonJan1Data from its i-th element on (i counts from 1): an
\* inner zero is overwritten, in the object itself, by the mean of its
\* predecessor and the next non-zero value, or by its predecessor
RECURSIVE ZeroPass(_, _)
ZeroPass(nonJan1Data, i) ==
  IF i > Len(nonJan1Data) THEN nonJan1Data
  ELSE IF nonJan1Data[i].value = 0 /\ i > 1 /\ i < Len(nonJan1Data)
  THEN LET nextIndex == NextNonZero(nonJan1Data, i + 1)
           prevValue == nonJan1Data[i - 1].value
           v == IF nextIndex <= Len(nonJan1Data)
                THEN (prevValue + nonJan1Data[nextIndex].value) \div 2
                ELSE prevValue
       IN ZeroPass([nonJan1Data EXCEPT ![i] = [time |-> nonJan1Data[i].time, value |-> v]],
                   i + 1)
  ELSE ZeroPass(nonJan1Data, i + 1)

nonJan1DataOf(series) == SelectSeq(series, LAMBDA d : ~IsJan1(d.time))

\* interpolateData(data): what it returns
interpolateData(series) ==
  IF Len(series) = 0 THEN <<>>
  ELSE Jan1Part(series) \o ZeroPass(nonJan1DataOf(series), 1)

\* interpolateData(data): the array it was given, as the call leaves it
\* (the samples outside 1 January are the objects the zero pass writes to)
DataAfterInterpolate(series) ==
  LET processed == ZeroPass(nonJan1DataOf(series), 1)
      rank(i) == Cardinality({j \in 1..i : ~IsJan1(series[j].time)})
  IN [i \in 1..Len(series) |-> IF IsJan1(series[i].time) THEN series[i] ELSE processed[rank(i)]]

\* ------------------------------------------------- fetchDataFromSupabase
\* envData.map(row => ({time: convertToLocalTime(...), value: Number(row[column] || 0)}))
RECURSIVE formattedData(_)
formattedData(rows) ==
  IF rows = <<>> THEN <<>>
  ELSE Append(formattedData(SubSeq(rows, 1, Len(rows) - 1)),
              [time |-> convertToLocalTime(rows[Len(rows)].time),
               value |-> IF rows[Len(rows)].isNull THEN 0 ELSE rows[Len(rows)].raw])

\* the while (hasMore) loop from page `page` on
RECURSIVE FetchPages(_, _, _)
FetchPages(selected, page, allData) ==
  LET rangeRows == SubSeq(selected, page * FetchPageSize + 1,
                          Min2((page + 1) * FetchPageSize, Len(selected)))
  IN IF Len(rangeRows) = 0 THEN allData
     ELSE IF Len(rangeRows) < FetchPageSize THEN allData \o formattedData(rangeRows)
     ELSE FetchPages(selected, page + 1, allData \o formattedData(rangeRows))

\* fetchDataFromSupabase(column, startTime) when every page is answered
fetchDataFromSupabase(table, from) ==
  FetchPages(SelectSeq(table, LAMBDA r : from = NoDate \/ r.time > from), 0, <<>>)

\* ------------------------------------------ useEnvironmentalData: state
NoEntry == [present |-> FALSE, value |-> <<>>]
NoOp == [op |-> "none", ok |-> TRUE]

\* the hook as it is right after mounting: initDB() is pending, and the
\* first run of the fetch effect has returned at `if (!db) return`
Mounted ==
  /\ db = "null" /\ envData = <<>> /\ loading = TRUE /\ envError = NoError
  /\ envPc = "initDB" /\ cachedData = <<>> /\ startTime = NoDate
  /\ newData = <<>> /\ processedData = <<>> /\ envLast = NoOp

ColumnOff ==
  /\ column = "none" /\ mounted = FALSE /\ fetchCalls = <<>> /\ shownData = <<>>
  /\ shownError = NoError /\ shownLoading = FALSE /\ columnChanges = 0 /\ anyFailed = FALSE

ImageOff ==
  /\ preloadState = <<>> /\ imageCache = {} /\ currentTimePeriod = "none"
  /\ imageCalls = <<>> /\ imagePc = "off"

PageOff ==
  /\ pOrdered = FALSE /\ pTable = <<>> /\ pFrom = NoDate /\ pPage = 0 /\ pAllData = <<>>
  /\ pRequests = 0 /\ pExposed = <<>> /\ pPc = "off"

NormOff ==
  /\ nSensor = "none" /\ nRange = <<>> /\ nPoints = <<>> /\ nOut = <<>> /\ nPc = "off"

DensifyOff ==
  /\ dInput = <<>> /\ dGeometry = <<>> /\ dInterpolated = <<>> /\ dPc = "off"

EnvOff ==
  /\ envRemote = <<>> /\ store = NoEntry
  /\ db = "null" /\ envData = <<>> /\ loading = FALSE /\ envError = NoError
  /\ envPc = "off" /\ cachedData = <<>> /\ startTime = NoDate
  /\ newData = <<>> /\ processedData = <<>> /\ envLast = NoOp

\* ----------------------------------------------------------- the timeline
MergeOff ==
  /\ mWhich = "none" /\ mExisting = <<>> /\ mIncoming = <<>>
  /\ mOnce = <<>> /\ mTwice = <<>> /\ mPc = "off"

Init ==
  /\ variant \in {"scroll", "observer"}
  /\ remoteRows \in {1..n : n \in 0..MaxTime}
  /\ data = <<>>
  /\ dateRanges = <<>>
  /\ isLoading = TRUE
  /\ isPreloading = FALSE
  /\ error = NoError
  /\ sinceLastLoad = LoadingBuffer
  /\ preloadTimer = NoTimer
  /\ inflight = <<>>
  /\ effectPending = TRUE
  /\ last = [op |-> "init", origin |-> "mount", outcome |-> "none",
             rows |-> 0, newest |-> NoDate, isPreload |-> FALSE]
  /\ sinceBoundaryLoad = LoadingBuffer
  /\ MergeOff
  /\ EnvOff
  /\ DensifyOff
  /\ NormOff
  /\ PageOff
  /\ ImageOff
  /\ ColumnOff

Next ==
  \/ MountEffect
  \/ \E i \in 1..MaxInflight, failed \in BOOLEAN : Complete(i, failed)
  \/ PreloadTimerFire
  \/ ObserverFire
  \/ \E isNearTop, isNearBottom, veryClose \in BOOLEAN :
       HandleScroll(isNearTop, isNearBottom, veryClose)
  \/ ScrollTimerFire
  \/ Tick
  \/ RemoteInsert

Spec == Init /\ [][Next]_vars

\* The timeline left alone: nobody scrolls, the trigger element never
\* intersects, the remote table stays as it is.  Every suspended query is
\* answered, an armed timer fires, a pending effect runs and time passes.
QuietNext ==
  \/ MountEffect
  \/ \E i \in 1..MaxInflight, failed \in BOOLEAN : Complete(i, failed)
  \/ PreloadTimerFire
  \/ Tick

\* a suspended call left `await query`: the steps of Complete, and enabled
\* exactly when Complete is
Answered ==
  /\ ~effectPending
  /\ mPc = "off"
  /\ \E i \in DOMAIN inflight : inflight' = RemoveAt(inflight, i)

Fairness ==
  /\ WF_inflight(Answered)
  /\ WF_vars(MountEffect)
  /\ WF_vars(PreloadTimerFire)
  /\ WF_vars(Tick)

QuietSpec == Init /\ [][QuietNext]_vars /\ Fairness

\* ------------------------------------------------------ the merge harness
\* The three merge routines applied to every series and every batch of rows
\* within the bounds: once, and then once more with the same batch.
TimelineOff ==
  /\ variant = "none" /\ remoteRows = {} /\ data = <<>> /\ dateRanges = <<>>
  /\ isLoading = FALSE /\ isPreloading = FALSE /\ error = NoError
  /\ sinceLastLoad = 0 /\ preloadTimer = NoTimer /\ inflight = <<>>
  /\ effectPending = FALSE /\ sinceBoundaryLoad = 0
  /\ last = [op |-> "none", origin |-> "none", outcome |-> "none",
             rows |-> 0, newest |-> NoDate, isPreload |-> FALSE]

Point(t, v) == [timestamp |-> t, value |-> v, sensorId |-> FirstSensor]

\* every series: strictly increasing timestamps, any values
SeriesSet ==
  UNION {{[i \in 1..Len(Ascending(T)) |-> Point(Ascending(T)[i], f[Ascending(T)[i]])] :
            f \in [T -> Values]} : T \in SUBSET Times}

\* every batch of at most MaxBatch rows, in any order
BatchSet ==
  UNION {[1..n -> {Point(t, v) : t \in Times, v \in Values}] : n \in 0..MaxBatch}

\* the same series as EnvironmentalData samples {time, value}, and back
AsSamples(points) ==
  [i \in 1..Len(points) |-> [time |-> points[i].timestamp, value |-> points[i].value]]
AsPoints(samples) ==
  [i \in 1..Len(samples) |-> Point(samples[i].time, samples[i].value)]

MergeBy(which, existing, incoming) ==
  IF which = "mergeData"
  THEN mergeData([s \in {FirstSensor} |-> existing], [s \in {FirstSensor} |-> incoming])[FirstSensor]
  ELSE IF which = "setData" THEN DedupPoints(existing, incoming)
  ELSE AsPoints(CombineCached(AsSamples(existing), AsSamples(incoming)))

MergeInit ==
  /\ TimelineOff
  /\ EnvOff
  /\ DensifyOff
  /\ NormOff
  /\ PageOff
  /\ ImageOff
  /\ ColumnOff
  /\ mWhich \in {"mergeData", "setData", "cached"}
  /\ mExisting \in SeriesSet
  /\ mIncoming \in BatchSet
  /\ mOnce = <<>>
  /\ mTwice = <<>>
  /\ mPc = "start"

ApplyMerge ==
  /\ mPc = "start"
  /\ mOnce' = MergeBy(mWhich, mExisting, mIncoming)
  /\ mPc' = "once"
  /\ UNCHANGED <<mWhich, mExisting, mIncoming, mTwice>>
  /\ UNCHANGED <<timelineVars, envVars, densifyVars, normVars, pageVars, imageVars, columnVars>>

ApplyAgain ==
  /\ mPc = "once"
  /\ mTwice' = MergeBy(mWhich, mOnce, mIncoming)
  /\ mPc' = "twice"
  /\ UNCHANGED <<mWhich, mExisting, mIncoming, mOnce>>
  /\ UNCHANGED <<timelineVars, envVars, densifyVars, normVars, pageVars, imageVars, columnVars>>

MergeNext == ApplyMerge \/ ApplyAgain

SpecMerge == MergeInit /\ [][MergeNext]_vars

\* --------------------------------------------------- useEnvironmentalData
HarnessOff == TimelineOff /\ MergeOff

\* a faulty rendition: without the finally block
Caught_NoFinally(op) ==
  /\ envError' = "error"
  /\ loading' = loading
  /\ envPc' = "done"
  /\ envLast' = [op |-> op, ok |-> FALSE]

\* catch (err) { setError(...) } finally { setLoading(false) }
Caught(op) ==
  /\ envError' = "error"
  /\ loading' = FALSE
  /\ envPc' = "done"
  /\ envLast' = [op |-> op, ok |-> FALSE]

\* initDB() resolves: setDb, the fetch effect runs again and fetchData()
\* goes up to `await getFromStore`
InitDBResolve ==
  /\ envPc = "initDB"
  /\ db' = "open"
  /\ envPc' = "get"
  /\ envLast' = [op |-> "initDB", ok |-> TRUE]
  /\ UNCHANGED <<envRemote, store, envData, loading, envError, cachedData, startTime,
                 newData, processedData>>
  /\ UNCHANGED <<timelineVars, mergeVars, densifyVars, normVars, pageVars, imageVars, columnVars>>

\* initDB() rejects: .catch(console.error); db stays null
InitDBReject ==
  /\ envPc = "initDB"
  /\ envPc' = "noDb"
  /\ envLast' = [op |-> "initDB", ok |-> FALSE]
  /\ UNCHANGED <<envRemote, store, db, envData, loading, envError, cachedData, startTime,
                 newData, processedData>>
  /\ UNCHANGED <<timelineVars, mergeVars, densifyVars, normVars, pageVars, imageVars, columnVars>>

\* getFromStore resolves; fetchData() goes up to `await fetchDataFromSupabase`
GetResolve ==
  /\ envPc = "get"
  /\ cachedData' = IF store.present THEN store.value ELSE <<>>
  /\ IF store.present /\ Len(store.value) > 0
     THEN /\ startTime' = LatestTime(store.value) - MarginMinutes
          /\ envPc' = "fetchNew"
     ELSE /\ startTime' = NoDate
          /\ envPc' = "fetchAll"
  /\ envLast' = [op |-> "get", ok |-> TRUE]
  /\ UNCHANGED <<envRemote, store, db, envData, loading, envError, newData, processedData>>
  /\ UNCHANGED <<timelineVars, mergeVars, densifyVars, normVars, pageVars, imageVars, columnVars>>

GetReject ==
  /\ envPc = "get"
  /\ Caught("get")
  /\ UNCHANGED <<envRemote, store, db, envData, cachedData, startTime, newData,
                 processedData>>
  /\ UNCHANGED <<timelineVars, mergeVars, densifyVars, normVars, pageVars, imageVars, columnVars>>

\* a faulty rendition: the combined series is processed and stored even
\* when the fetch brought nothing new
FetchResolve_AlwaysStores ==
  /\ envPc \in {"fetchNew", "fetchAll"}
  /\ LET fetched == fetchDataFromSupabase(envRemote, startTime)
         given == IF envPc = "fetchNew" THEN CombineCached(cachedData, fetched) ELSE fetched
     IN /\ newData' = given
        /\ processedData' = interpolateData(given)
        /\ envPc' = IF envPc = "fetchNew" THEN "putNew" ELSE "putAll"
        /\ UNCHANGED <<envData, loading>>
  /\ envLast' = [op |-> "fetch", ok |-> TRUE]
  /\ UNCHANGED <<envRemote, store, db, envError, cachedData, startTime>>
  /\ UNCHANGED <<timelineVars, mergeVars, densifyVars, normVars, pageVars, imageVars, columnVars>>

\* fetchDataFromSupabase resolves (every page was answered); fetchData()
\* goes up to `await putInStore`, or to its end when nothing new was found
FetchResolve ==
  /\ envPc \in {"fetchNew", "fetchAll"}
  /\ LET fetched == fetchDataFromSupabase(envRemote, startTime)
         unique == uniqueNewData(cachedData, fetched)
         given == IF envPc = "fetchNew" THEN CombineCached(cachedData, fetched) ELSE fetched
     IN IF envPc = "fetchNew" /\ Len(unique) = 0
        THEN /\ envData' = cachedData
             /\ loading' = FALSE
             /\ envPc' = "done"
             /\ UNCHANGED <<newData, processedData>>
        ELSE /\ newData' = given
             /\ processedData' = interpolateData(given)
             /\ envPc' = IF envPc = "fetchNew" THEN "putNew" ELSE "putAll"
             /\ UNCHANGED <<envData, loading>>
  /\ envLast' = [op |-> "fetch", ok |-> TRUE]
  /\ UNCHANGED <<envRemote, store, db, envError, cachedData, startTime>>
  /\ UNCHANGED <<timelineVars, mergeVars, densifyVars, normVars, pageVars, imageVars, columnVars>>

\* a page of fetchDataFromSupabase comes back with an error: throw
FetchReject ==
  /\ envPc \in {"fetchNew", "fetchAll"}
  /\ Caught("fetch")
  /\ UNCHANGED <<envRemote, store, db, envData, cachedData, startTime, newData,
                 processedData>>
  /\ UNCHANGED <<timelineVars, mergeVars, densifyVars, normVars, pageVars, imageVars, columnVars>>

\* a faulty rendition: the array as fetched is stored, the processed one exposed
PutResolve_StoresUnprocessed ==
  /\ envPc \in {"putNew", "putAll"}
  /\ store' = [present |-> TRUE, value |-> newData]
  /\ envData' = processedData
  /\ loading' = FALSE
  /\ envPc' = "done"
  /\ envLast' = [op |-> "put", ok |-> TRUE]
  /\ UNCHANGED <<envRemote, db, envError, cachedData, startTime, newData, processedData>>
  /\ UNCHANGED <<timelineVars, mergeVars, densifyVars, normVars, pageVars, imageVars, columnVars>>

\* putInStore resolves; setData(processedData)
PutResolve ==
  /\ envPc \in {"putNew", "putAll"}
  /\ store' = [present |-> TRUE, value |-> processedData]
  /\ envData' = processedData
  /\ loading' = FALSE
  /\ envPc' = "done"
  /\ envLast' = [op |-> "put", ok |-> TRUE]
  /\ UNCHANGED <<envRemote, db, envError, cachedData, startTime, newData, processedData>>
  /\ UNCHANGED <<timelineVars, mergeVars, densifyVars, normVars, pageVars, imageVars, columnVars>>

PutReject ==
  /\ envPc \in {"putNew", "putAll"}
  /\ Caught("put")
  /\ UNCHANGED <<envRemote, store, db, envData, cachedData, startTime, newData,
                 processedData>>
  /\ UNCHANGED <<timelineVars, mergeVars, densifyVars, normVars, pageVars, imageVars, columnVars>>

\* the page is loaded again: the hook mounts afresh, the store persists
Remount ==
  /\ envPc \in {"done", "noDb"}
  /\ db' = "null" /\ envData' = <<>> /\ loading' = TRUE /\ envError' = NoError
  /\ envPc' = "initDB" /\ cachedData' = <<>> /\ startTime' = NoDate
  /\ newData' = <<>> /\ processedData' = <<>> /\ envLast' = NoOp
  /\ UNCHANGED <<envRemote, store>>
  /\ UNCHANGED <<timelineVars, mergeVars, densifyVars, normVars, pageVars, imageVars, columnVars>>

\* the sensor station writes the next row
EnvRemoteInsert ==
  /\ envPc # "off"
  /\ Len(envRemote) < MaxRows
  /\ \E cell \in RawCells :
       envRemote' = Append(envRemote, [time |-> RowTime(Len(envRemote) + 1),
                                       isNull |-> cell.isNull, raw |-> cell.raw])
  /\ UNCHANGED <<store, db, envData, loading, envError, envPc, cachedData, startTime,
                 newData, processedData, envLast>>
  /\ UNCHANGED <<timelineVars, mergeVars, densifyVars, normVars, pageVars, imageVars, columnVars>>

EnvInit ==
  /\ HarnessOff
  /\ DensifyOff
  /\ NormOff
  /\ PageOff
  /\ ImageOff
  /\ ColumnOff
  /\ envRemote \in Tables
  /\ store = NoEntry
  /\ Mounted

EnvNext ==
  \/ InitDBResolve
  \/ InitDBReject
  \/ GetResolve
  \/ GetReject
  \/ FetchResolve
  \/ FetchReject
  \/ PutResolve
  \/ PutReject
  \/ Remount
  \/ EnvRemoteInsert

SpecEnv == EnvInit /\ [][EnvNext]_vars

\* the timeline and the hook, each on its own
SyncInit == Init \/ EnvInit
SyncNext == Next \/ EnvNext
SpecSync == SyncInit /\ [][SyncNext]_vars

\* ========================================================= the densifiers
\* Visualization and TempVisualization turn a series into one value per
\* minute slot of a day.  A day is scaled to MINUTES_IN_DAY slots; a time is
\* day * MINUTES_IN_DAY + minute and, the browser clock being UTC, the ISO
\* date of a time and its getHours()/getMinutes() speak of the same day.
MINUTES_IN_DAY == 5
DenseDays == 3
DenseSamples == 2
MaxRenderedDays == 365

\* values are multiples of a unit every slot distance divides, so the
\* floating-point interpolation of the source is exact integer arithmetic
ValueUnit == 2 * 3 * 4 * 5 * 7
DenseValues == {ValueUnit, 3 * ValueUnit}
Minutes == 0..(MINUTES_IN_DAY - 1)
DenseTimes == 0..(DenseDays * MINUTES_IN_DAY - 1)

\* entry.time.toISOString().split("T")[0]
dateKeyOf(time) == time \div MINUTES_IN_DAY
\* entry.time.getHours() * 60 + entry.time.getMinutes()
minutesOf(time) == time % MINUTES_IN_DAY

SetMin(S) == CHOOSE x \in S : \A y \in S : x <= y
SetMax(S) == CHOOSE x \in S : \A y \in S : x >= y

\* groups in the order their day first appears, entries in series order
RECURSIVE organizeDataByDay(_)
organizeDataByDay(series) ==
  IF series = <<>> THEN <<>>
  ELSE LET days == organizeDataByDay(SubSeq(series, 1, Len(series) - 1))
           entry == series[Len(series)]
           held == {k \in 1..Len(days) : dateKeyOf(days[k][1].time) = dateKeyOf(entry.time)}
       IN IF held = {} THEN Append(days, <<entry>>)
          ELSE [days EXCEPT ![CHOOSE k \in held : TRUE] = Append(@, entry)]

\* Math.min / Math.max over the values of a series that has entries
getRange(series) ==
  [minValue |-> SetMin({series[i].value : i \in DOMAIN series}),
   maxValue |-> SetMax({series[i].value : i \in DOMAIN series})]

\* minuteMap.set(minute, entry.value) for every entry of the day: last wins
minuteMapOf(dayData) ==
  [m \in {minutesOf(dayData[i].time) : i \in DOMAIN dayData} |->
     dayData[SetMax({i \in DOMAIN dayData : minutesOf(dayData[i].time) = m})].value]

firstMinuteOf(minuteMap) == SetMin(DOMAIN minuteMap \cup {MINUTES_IN_DAY})
lastMinuteOf(minuteMap) == SetMax(DOMAIN minuteMap \cup {0})

\* no minute found by a scan: beforeValue / afterValue stay undefined
NoMinute == -1

\* while (beforeMinute >= firstMinute) { if has: break; beforeMinute-- }
RECURSIVE beforeMinuteOf(_, _, _)
beforeMinuteOf(minuteMap, beforeMinute, firstMinute) ==
  IF beforeMinute >= firstMinute
  THEN IF beforeMinute \in DOMAIN minuteMap THEN beforeMinute
       ELSE beforeMinuteOf(minuteMap, beforeMinute - 1, firstMinute)
  ELSE NoMinute

\* while (afterMinute <= lastMinute) { if has: break; afterMinute++ }
RECURSIVE afterMinuteOf(_, _, _)
afterMinuteOf(minuteMap, afterMinute, lastMinute) ==
  IF afterMinute <= lastMinute
  THEN IF afterMinute \in DOMAIN minuteMap THEN afterMinute
       ELSE afterMinuteOf(minuteMap, afterMinute + 1, lastMinute)
  ELSE NoMinute

\* a faulty rendition: a slot between two samples repeats the earlier one
slotValue_CarryForward(minuteMap, minute, minValue, maxValue) ==
  IF minute \in DOMAIN minuteMap THEN minuteMap[minute]
  ELSE LET beforeMinute == beforeMinuteOf(minuteMap, minute - 1, firstMinuteOf(minuteMap))
           afterMinute == afterMinuteOf(minuteMap, minute + 1, lastMinuteOf(minuteMap))
       IN IF beforeMinute # NoMinute THEN minuteMap[beforeMinute]
          ELSE IF afterMinute # NoMinute THEN minuteMap[afterMinute]
          ELSE (minValue + maxValue) \div 2

\* the value of one minute slot of a day
slotValue(minuteMap, minute, minValue, maxValue) ==
  IF minute \in DOMAIN minuteMap THEN minuteMap[minute]
  ELSE LET beforeMinute == beforeMinuteOf(minuteMap, minute - 1, firstMinuteOf(minuteMap))
           afterMinute == afterMinuteOf(minuteMap, minute + 1, lastMinuteOf(minuteMap))
       IN IF beforeMinute # NoMinute /\ afterMinute # NoMinute
          THEN minuteMap[beforeMinute]
               + ((minuteMap[afterMinute] - minuteMap[beforeMinute]) * (minute - beforeMinute))
                 \div (afterMinute - beforeMinute)
          ELSE IF beforeMinute # NoMinute THEN minuteMap[beforeMinute]
          ELSE IF afterMinute # NoMinute THEN minuteMap[afterMinute]
          ELSE (minValue + maxValue) \div 2

\* the geometry memo: null without data, else one row of slots per day
\* group, numDays rows at most; `day` records which day a row was built from
geometry(series) ==
  IF series = <<>> THEN <<>>
  ELSE LET days == organizeDataByDay(series)
           numDays == Min2(Len(days), MaxRenderedDays)
           range == getRange(series)
       IN [dayIndex \in 1..numDays |->
             [day |-> dateKeyOf(days[dayIndex][1].time),
              slots |-> [minute \in Minutes |->
                           slotValue(minuteMapOf(days[dayIndex]), minute,
                                     range.minValue, range.maxValue)]]]

\* ---- TempVisualization interpolateData
\* the entries of one day, in series order
dayEntries(series, dateKey) == SelectSeq(series, LAMBDA entry : dateKeyOf(entry.time) = dateKey)

\* dayMap: date key -> Map(minute -> value)
dayMapOf(series) ==
  [dateKey \in {dateKeyOf(series[i].time) : i \in DOMAIN series} |->
     minuteMapOf(dayEntries(series, dateKey))]

\* dayData?.get(minute) ?? null: <<>> is null, also for a day that is null
GetOrNull(dayData, minute) ==
  IF minute \in DOMAIN dayData THEN <<dayData[minute]>> ELSE <<>>

\* what one minute of one day pushes: <<value>>, or <<>> when nothing is pushed
\* firstKey is Array.from(currentDayData.keys())[0], the first key inserted
pushedValue(currentDayData, prevDayData, nextDayData, isFirstDay, isLastDay, firstKey, minute) ==
  IF minute \in DOMAIN currentDayData THEN <<currentDayData[minute]>>
  ELSE LET interpolatedValue ==
             IF isFirstDay /\ minute < firstKey THEN GetOrNull(nextDayData, minute)
             ELSE IF isLastDay /\ minute > SetMax(DOMAIN currentDayData)
                  THEN GetOrNull(prevDayData, minute)
             ELSE IF GetOrNull(prevDayData, minute) # <<>> THEN GetOrNull(prevDayData, minute)
             ELSE GetOrNull(nextDayData, minute)
           earlier == {m \in DOMAIN currentDayData : m < minute}
           later == {m \in DOMAIN currentDayData : m > minute}
       IN IF interpolatedValue # <<>> THEN interpolatedValue
          ELSE IF earlier # {} /\ later # {}
               THEN LET prevKnownMinute == SetMax(earlier)
                        nextKnownMinute == SetMin(later)
                    IN <<currentDayData[prevKnownMinute]
                         + ((currentDayData[nextKnownMinute] - currentDayData[prevKnownMinute])
                            * (minute - prevKnownMinute))
                           \div (nextKnownMinute - prevKnownMinute)>>
               ELSE <<>>

\* the entries pushed for the minutes from `minute` to the end of the day
RECURSIVE pushedFrom(_, _, _)
pushedFrom(pushed, dateKey, minute) ==
  IF minute >= MINUTES_IN_DAY THEN <<>>
  ELSE (IF pushed[minute] = <<>> THEN <<>>
        ELSE <<[time |-> dateKey * MINUTES_IN_DAY + minute, value |-> pushed[minute][1]]>>)
       \o pushedFrom(pushed, dateKey, minute + 1)

\* sortedDates.forEach from dateIndex on
RECURSIVE interpolatedFrom(_, _, _)
interpolatedFrom(series, sortedDates, dateIndex) ==
  IF dateIndex > Len(sortedDates) THEN <<>>
  ELSE LET dayMap == dayMapOf(series)
           dateKey == sortedDates[dateIndex]
           prevDayData == IF dateIndex > 1 THEN dayMap[sortedDates[dateIndex - 1]] ELSE <<>>
           nextDayData == IF dateIndex < Len(sortedDates)
                          THEN dayMap[sortedDates[dateIndex + 1]] ELSE <<>>
           firstKey == minutesOf(dayEntries(series, dateKey)[1].time)
           pushed == [minute \in Minutes |->
                        pushedValue(dayMap[dateKey], prevDayData, nextDayData,
                                    dateKey = sortedDates[1],
                                    dateKey = sortedDates[Len(sortedDates)],
                                    firstKey, minute)]
       IN pushedFrom(pushed, dateKey, 0) \o interpolatedFrom(series, sortedDates, dateIndex + 1)

TempInterpolateData(series) ==
  IF series = <<>> THEN <<>>
  ELSE SortByTime(interpolatedFrom(series,
                    Ascending({dateKeyOf(series[i].time) : i \in DOMAIN series}), 1))

\* ---- the densifiers on every series
RECURSIVE SubsetsUpTo(_, _)
SubsetsUpTo(S, n) ==
  IF n = 0 THEN {{}}
  ELSE LET smaller == SubsetsUpTo(S, n - 1)
       IN smaller \cup {A \cup {x} : A \in smaller, x \in S}

\* every series the hook can expose: ascending, one sample per time
DenseInputs ==
  UNION {{[i \in 1..Len(Ascending(T)) |->
             [time |-> Ascending(T)[i], value |-> f[Ascending(T)[i]]]] :
          f \in [T -> DenseValues]} : T \in SubsetsUpTo(DenseTimes, DenseSamples)}

DensifyInit ==
  /\ HarnessOff
  /\ EnvOff
  /\ NormOff
  /\ PageOff
  /\ ImageOff
  /\ ColumnOff
  /\ dInput \in DenseInputs
  /\ dGeometry = <<>>
  /\ dInterpolated = <<>>
  /\ dPc = "start"

\* Visualization renders: the geometry memo is computed from the data
VisualizationRender ==
  /\ dPc \in {"start", "interpolateData"}
  /\ dGeometry' = geometry(dInput)
  /\ dPc' = IF dPc = "start" THEN "geometry" ELSE "done"
  /\ UNCHANGED <<dInput, dInterpolated>>
  /\ UNCHANGED <<timelineVars, mergeVars, envVars, normVars, pageVars, imageVars, columnVars>>

\* TempVisualization's interpolateData is applied to the data
TempInterpolate ==
  /\ dPc \in {"start", "geometry"}
  /\ dInterpolated' = TempInterpolateData(dInput)
  /\ dPc' = IF dPc = "start" THEN "interpolateData" ELSE "done"
  /\ UNCHANGED <<dInput, dGeometry>>
  /\ UNCHANGED <<timelineVars, mergeVars, envVars, normVars, pageVars, imageVars, columnVars>>

DensifyNext ==
  \/ VisualizationRender
  \/ TempInterpolate

SpecDensify == DensifyInit /\ [][DensifyNext]_vars

\* =========================================================== normalization
\* A JS number is [k, n]: k is "num" for a finite number of n tenths, or
\* "null", "NaN", "inf", "-inf".  A normalized value is [k, a, b]: for "num"
\* it is the number 100 * a / b (b > 0), so that the source's floating-point
\* quotient is compared exactly.
MaxDecade == 2
NormPoints == 2

Tenth == 1
Finite(n) == [k |-> "num", n |-> n]
NotFinite == {[k |-> s, n |-> 0] : s \in {"null", "NaN", "inf", "-inf"}}

\* finite values: below zero, zero, and 1, 2, 5 times a power of ten tenths
NormNumbers ==
  {0 - 10, 0} \cup {d * 10 ^ e : d \in {1, 2, 5}, e \in 0..MaxDecade}
\* range bounds
NormBounds == {0 - 10, 0, 1, 10, 10 ^ MaxDecade}
NormRanges == {r \in NormBounds \X NormBounds : r[1] < r[2]}

\* sensor ids: a linear one, the two logarithmic ones, one without descriptor
NormSensors == {"temp", "gas", "lux", "co2"}
Configured == {"temp", "gas", "lux"}

Percent(a, b) == [k |-> "num", a |-> a, b |-> b]
NaN == [k |-> "NaN", a |-> 0, b |-> 1]
PosInfinity == [k |-> "inf", a |-> 0, b |-> 1]
NegInfinity == [k |-> "-inf", a |-> 0, b |-> 1]

\* x / y * 100 in JS arithmetic, for finite x and y
Quotient(x, y) ==
  IF y > 0 THEN Percent(x, y)
  ELSE IF y < 0 THEN Percent(0 - x, 0 - y)
  ELSE IF x = 0 THEN NaN
  ELSE IF x > 0 THEN PosInfinity ELSE NegInfinity

\* Math.max(0, Math.min(100, normalized)): NaN stays NaN
Clamp100(normalized) ==
  IF normalized.k = "NaN" THEN NaN
  ELSE IF normalized.k = "inf" THEN Percent(1, 1)
  ELSE IF normalized.k = "-inf" THEN Percent(0, 1)
  ELSE IF normalized.a < 0 THEN Percent(0, 1)
  ELSE IF normalized.a > normalized.b THEN Percent(1, 1)
  ELSE normalized

\* 1000 * Math.log10(digit), rounded
LogDigit == <<0, 301, 477, 602, 699, 778, 845, 903, 954>>
\* 1000 * Math.log10 of x tenths, for x a digit times a power of ten
RECURSIVE Log10(_)
Log10(x) ==
  IF x % 10 = 0 THEN 1000 + Log10(x \div 10) ELSE LogDigit[x] - 1000

isLogarithmic(sensorId) == sensorId \in {"gas", "lux"}

\* a faulty rendition: an invalid value is not rejected, and NaN runs
\* through Math.max, Math.min and the division
normalizeValue_NoGuard(value, sensorRange, sensorId) ==
  IF value.k # "num" THEN NaN
  ELSE Clamp100(Quotient(Max2(sensorRange[1], Min2(sensorRange[2], value.n)) - sensorRange[1],
                         sensorRange[2] - sensorRange[1]))

\* normalizeValue(value, sensorRange, sensorId) of the mock / hourly path
normalizeValue(value, sensorRange, sensorId) ==
  IF value.k # "num" THEN Percent(0, 1)
  ELSE
    LET min == sensorRange[1]
        max == sensorRange[2]
        clampedValue == Max2(min, Min2(max, value.n))
        positiveMin == Max2(Tenth, min)
        positiveValue == Max2(Tenth, clampedValue)
        positiveMax == Max2(positiveMin + Tenth, max)
    IN IF min >= max THEN Percent(0, 1)
       ELSE IF isLogarithmic(sensorId)
       THEN IF Log10(positiveMax) = Log10(positiveMin) THEN Percent(1, 2)
            ELSE Clamp100(Quotient(Log10(positiveValue) - Log10(positiveMin),
                                   Log10(positiveMax) - Log10(positiveMin)))
       ELSE Clamp100(Quotient(clampedValue - min, max - min))

Absent == [k |-> "absent", a |-> 0, b |-> 1]
values(points) == {points[i].value.n : i \in DOMAIN points}

\* (logValue - logMin) / (Math.log10(maxVal) - logMin) * 100: Math.log10 is
\* NaN below zero and -Infinity at zero
LogQuotient(logValue, logMin, maxVal) ==
  IF maxVal < 0 THEN NaN
  ELSE IF maxVal = 0 THEN Percent(0, 1)
  ELSE Quotient(logValue - logMin, Log10(maxVal) - logMin)

\* normalizeValue(value, minVal, maxVal, sensorRange, sensorId)
normalizeValueInRange(value, minVal, maxVal, sensorRange, sensorId) ==
  IF value.k = "null" THEN Percent(0, 1)
  ELSE
    LET clampedValue == Max2(sensorRange[1], Min2(sensorRange[2], value.n))
    IN IF sensorId = "gas"
       THEN Clamp100(LogQuotient(Log10(Max2(Tenth, clampedValue)),
                                 Log10(Max2(Tenth, minVal)), maxVal))
       ELSE IF sensorId = "lux"
       THEN Clamp100(LogQuotient(Log10(Max2(10 * Tenth, clampedValue)),
                                 Log10(Max2(10 * Tenth, minVal)), maxVal))
       ELSE Clamp100(Quotient(clampedValue - minVal, maxVal - minVal))

\* getNormalizedData with SENSOR_CONFIGS.find: sensorRange is the range
\* configured for the sensor of the points
getNormalizedData(points, sensorRange) ==
  IF points = <<>> \/ points[1].sensorId \notin Configured
  THEN [i \in DOMAIN points |-> [value |-> points[i].value, normalizedValue |-> Absent]]
  ELSE LET minVal == Max2(sensorRange[1], SetMin(values(points)))
           maxVal == Min2(sensorRange[2], SetMax(values(points)))
       IN [i \in DOMAIN points |->
             [value |-> points[i].value,
              normalizedValue |-> normalizeValueInRange(points[i].value, minVal, maxVal,
                                                        sensorRange, points[i].sensorId)]]

\* normalizeValue(value, minVal, maxVal): no clamp
normalizeValueLinear(value, minVal, maxVal) == Quotient(value.n - minVal, maxVal - minVal)

\* d3.min(values) || 0 and d3.max(values) || 100
orDefault(S, extreme, default) ==
  IF S = {} \/ extreme = 0 THEN default ELSE extreme

\* getNormalizedData without a descriptor lookup
getNormalizedDataD3(points) ==
  LET minVal == orDefault(values(points), IF points = <<>> THEN 0 ELSE SetMin(values(points)), 0)
      maxVal == orDefault(values(points), IF points = <<>> THEN 0 ELSE SetMax(values(points)),
                          100 * 10 * Tenth)
  IN [i \in DOMAIN points |->
        [value |-> points[i].value,
         normalizedValue |-> normalizeValueLinear(points[i].value, minVal, maxVal)]]

\* the rows of one sensor as they go through normalizeValue on arrival
processRows(points, sensorRange) ==
  [i \in DOMAIN points |->
     [value |-> points[i].value,
      normalizedValue |-> normalizeValue(points[i].value, sensorRange, points[i].sensorId)]]

RECURSIVE SeqsUpTo(_, _)
SeqsUpTo(S, n) ==
  IF n = 0 THEN {<<>>}
  ELSE LET shorter == SeqsUpTo(S, n - 1)
       IN shorter \cup {Append(q, x) : q \in shorter, x \in S}

\* series of finite values, and one-point series of a value that is not finite
NormInputs ==
  SeqsUpTo({Finite(n) : n \in NormNumbers}, NormPoints) \cup {<<x>> : x \in NotFinite}

AllFinite(points) == \A i \in DOMAIN points : points[i].value.k = "num"

NormInit ==
  /\ HarnessOff
  /\ EnvOff
  /\ DensifyOff
  /\ PageOff
  /\ ImageOff
  /\ ColumnOff
  /\ nSensor \in NormSensors
  /\ nRange \in NormRanges
  /\ \E q \in NormInputs : nPoints = [i \in DOMAIN q |-> [value |-> q[i], sensorId |-> nSensor]]
  /\ nOut = <<>>
  /\ nPc = "start"

\* rows arrive and every value goes through normalizeValue with config.range
ProcessRows ==
  /\ nPc = "start"
  /\ nSensor \in Configured
  /\ nOut' = processRows(nPoints, nRange)
  /\ nPc' = "processed"
  /\ UNCHANGED <<nSensor, nRange, nPoints>>
  /\ UNCHANGED <<timelineVars, mergeVars, envVars, densifyVars, pageVars, imageVars, columnVars>>

\* a render calls getNormalizedData(points) of the rendition with descriptors
GetNormalizedData ==
  /\ nPc = "start"
  /\ AllFinite(nPoints)
  /\ nOut' = getNormalizedData(nPoints, nRange)
  /\ nPc' = "normalized"
  /\ UNCHANGED <<nSensor, nRange, nPoints>>
  /\ UNCHANGED <<timelineVars, mergeVars, envVars, densifyVars, pageVars, imageVars, columnVars>>

\* a render calls getNormalizedData(points) of the rendition without them
GetNormalizedDataD3 ==
  /\ nPc = "start"
  /\ AllFinite(nPoints)
  /\ nOut' = getNormalizedDataD3(nPoints)
  /\ nPc' = "normalizedD3"
  /\ UNCHANGED <<nSensor, nRange, nPoints>>
  /\ UNCHANGED <<timelineVars, mergeVars, envVars, densifyVars, pageVars, imageVars, columnVars>>

NormNext ==
  \/ ProcessRows
  \/ GetNormalizedData
  \/ GetNormalizedDataD3

SpecNorm == NormInit /\ [][NormNext]_vars

\* ============================================================ the page loop
\* fetchDataFromSupabase (layout.ts) and fetchData (part_004) page by page,
\* each `await query.range(...)` being one answer of the remote store.  The
\* query of part_004 has .order("time"); that of layout.ts has no order, and
\* a store answers an unordered LIMIT/OFFSET request with the rows in any
\* order it picks for that request.
matching(table, from) == SelectSeq(table, LAMBDA r : from = NoDate \/ r.time > from)

\* the orders a request can see the selected rows in
Orderings(selected, ordered) ==
  IF ordered THEN {selected}
  ELSE {[i \in DOMAIN selected |-> selected[p[i]]] :
          p \in {q \in [DOMAIN selected -> DOMAIN selected] :
                   \A i, j \in DOMAIN selected : q[i] = q[j] => i = j}}

\* .range(page * pageSize, (page + 1) * pageSize - 1) of the rows as ordered
rangeOf(rows, page) ==
  SubSeq(rows, page * FetchPageSize + 1, Min2((page + 1) * FetchPageSize, Len(rows)))

\* envData.map(row => ({time: new Date(row.time), value: Number(row[column] || 0)}))
formattedPlain(rows) ==
  [i \in DOMAIN rows |->
     [time |-> rows[i].time, value |-> IF rows[i].isNull THEN 0 ELSE rows[i].raw]]

PageInit ==
  /\ HarnessOff
  /\ EnvOff
  /\ DensifyOff
  /\ NormOff
  /\ ImageOff
  /\ ColumnOff
  /\ pOrdered \in BOOLEAN
  /\ pTable \in Tables
  /\ pFrom \in IF pOrdered THEN {NoDate} ELSE {NoDate, RowTime(1)}
  /\ pPage = 0
  /\ pAllData = <<>>
  /\ pRequests = 0
  /\ pExposed = <<>>
  /\ pPc = "loop"

\* one page is answered without error; the loop goes on or ends
PageAnswer ==
  /\ pPc = "loop"
  /\ \E rows \in Orderings(matching(pTable, pFrom), pOrdered) :
       LET pageRows == rangeOf(rows, pPage)
       IN IF Len(pageRows) = 0
          THEN /\ pPc' = "returned"
               /\ UNCHANGED <<pAllData, pPage>>
          ELSE /\ pAllData' = pAllData \o (IF pOrdered THEN formattedPlain(pageRows)
                                           ELSE formattedData(pageRows))
               /\ pPage' = pPage + 1
               /\ pPc' = IF Len(pageRows) < FetchPageSize THEN "returned" ELSE "loop"
  /\ pRequests' = pRequests + 1
  /\ UNCHANGED <<pOrdered, pTable, pFrom, pExposed>>
  /\ UNCHANGED <<timelineVars, mergeVars, envVars, densifyVars, normVars, imageVars, columnVars>>

\* a page comes back with an error: throw
PageError ==
  /\ pPc = "loop"
  /\ pPc' = "thrown"
  /\ pRequests' = pRequests + 1
  /\ UNCHANGED <<pOrdered, pTable, pFrom, pPage, pAllData, pExposed>>
  /\ UNCHANGED <<timelineVars, mergeVars, envVars, densifyVars, normVars, imageVars, columnVars>>

\* the caller goes on with allData, or its catch block runs
PageSettle ==
  /\ pPc \in {"returned", "thrown"}
  /\ pExposed' = IF pPc = "returned" THEN pAllData ELSE pExposed
  /\ pPc' = IF pPc = "returned" THEN "settled" ELSE "failed"
  /\ UNCHANGED <<pOrdered, pTable, pFrom, pPage, pAllData, pRequests>>
  /\ UNCHANGED <<timelineVars, mergeVars, envVars, densifyVars, normVars, imageVars, columnVars>>

PageNext ==
  \/ PageAnswer
  \/ PageError
  \/ PageSettle

SpecPage == PageInit /\ [][PageNext]_vars

\* ======================================================= the image preloader
\* Visualization_v2: fetchImageData(period, isPriority) and loadPriorityData.
\* A suspended call is [period, isPriority, stage, awaited]: stage "fetch" is
\* `await fetch(url)` up to the CID, "image" is `await imagePromise`; awaited
\* says that loadPriorityData waits for this call.
Periods == {"daily", "hourly", "cumulative"}

NoImage == [hasCid |-> FALSE, isLoading |-> FALSE, hasError |-> FALSE, isPreloaded |-> FALSE,
            isImageLoaded |-> FALSE]

\* setPreloadState(prev => ({...prev, [period]: {...prev[period], isLoading: true, error: null}}))
Started(state, period) ==
  [state EXCEPT ![period] = [@ EXCEPT !.isLoading = TRUE, !.hasError = FALSE]]

\* the catch block's setPreloadState
Failed(state, period) ==
  [state EXCEPT ![period] = [@ EXCEPT !.isLoading = FALSE, !.hasError = TRUE,
                                      !.isPreloaded = FALSE, !.isImageLoaded = FALSE]]

Call(period, isPriority, awaited) ==
  [period |-> period, isPriority |-> isPriority, stage |-> "fetch", awaited |-> awaited]

\* a call ends.  When loadPriorityData awaited it, hourly and cumulative are
\* started: Promise.all([fetchImageData("hourly"), fetchImageData("cumulative")])
Ended(calls, i, state) ==
  IF calls[i].awaited
  THEN /\ imageCalls' = RemoveAt(calls, i) \o <<Call("hourly", FALSE, FALSE),
                                                Call("cumulative", FALSE, FALSE)>>
       /\ preloadState' = Started(Started(state, "hourly"), "cumulative")
       /\ imagePc' = "parallel"
  ELSE /\ imageCalls' = RemoveAt(calls, i)
       /\ preloadState' = state
       /\ imagePc' = imagePc

\* the catch block of the i-th call
Thrown(i) ==
  IF imageCalls[i].isPriority /\ imageCalls[i].period = "daily"
  THEN \* setCurrentTimePeriod("cumulative"); return fetchImageData("cumulative", true)
       /\ currentTimePeriod' = "cumulative"
       /\ imageCalls' = [imageCalls EXCEPT ![i] = Call("cumulative", TRUE, @.awaited)]
       /\ preloadState' = Started(preloadState, "cumulative")
       /\ imagePc' = imagePc
  ELSE /\ Ended(imageCalls, i, Failed(preloadState, imageCalls[i].period))
       /\ currentTimePeriod' = currentTimePeriod

ImageInit ==
  /\ HarnessOff
  /\ EnvOff
  /\ DensifyOff
  /\ NormOff
  /\ PageOff
  /\ ColumnOff
  /\ preloadState = [p \in Periods |-> NoImage]
  /\ imageCache \in SUBSET Periods
  /\ currentTimePeriod = "daily"
  /\ imageCalls = <<>>
  /\ imagePc = "mount"

\* the effect runs loadPriorityData up to `await fetchImageData("daily", true)`
LoadPriorityData ==
  /\ imagePc = "mount"
  /\ preloadState' = Started(preloadState, "daily")
  /\ imageCalls' = <<Call("daily", TRUE, TRUE)>>
  /\ imagePc' = "priority"
  /\ UNCHANGED <<imageCache, currentTimePeriod>>
  /\ UNCHANGED <<timelineVars, mergeVars, envVars, densifyVars, normVars, pageVars, columnVars>>

\* the response of the i-th call is ok and names a CID
ResponseOk(i) ==
  /\ i \in DOMAIN imageCalls
  /\ imageCalls[i].stage = "fetch"
  /\ LET period == imageCalls[i].period
     IN IF period \in imageCache
        THEN Ended(imageCalls, i,
                   [preloadState EXCEPT ![period] =
                      [hasCid |-> TRUE, isLoading |-> FALSE, hasError |-> FALSE,
                       isPreloaded |-> TRUE, isImageLoaded |-> TRUE]])
        ELSE /\ preloadState' = [preloadState EXCEPT ![period] =
                                   [hasCid |-> TRUE, isLoading |-> FALSE, hasError |-> FALSE,
                                    isPreloaded |-> TRUE, isImageLoaded |-> FALSE]]
             /\ imageCalls' = [imageCalls EXCEPT ![i].stage = "image"]
             /\ imagePc' = imagePc
  /\ UNCHANGED <<imageCache, currentTimePeriod>>
  /\ UNCHANGED <<timelineVars, mergeVars, envVars, densifyVars, normVars, pageVars, columnVars>>

\* fetch rejects, the status is not ok, or the body names no IPFS URL
ResponseFails(i) ==
  /\ i \in DOMAIN imageCalls
  /\ imageCalls[i].stage = "fetch"
  /\ Thrown(i)
  /\ UNCHANGED imageCache
  /\ UNCHANGED <<timelineVars, mergeVars, envVars, densifyVars, normVars, pageVars, columnVars>>

\* img.onload: the image is cached, the promise resolves and the call ends
ImageLoads(i) ==
  /\ i \in DOMAIN imageCalls
  /\ imageCalls[i].stage = "image"
  /\ imageCache' = imageCache \cup {imageCalls[i].period}
  /\ Ended(imageCalls, i,
           [preloadState EXCEPT ![imageCalls[i].period].isImageLoaded = TRUE])
  /\ UNCHANGED currentTimePeriod
  /\ UNCHANGED <<timelineVars, mergeVars, envVars, densifyVars, normVars, pageVars, columnVars>>

\* img.onerror: the promise rejects
ImageFails(i) ==
  /\ i \in DOMAIN imageCalls
  /\ imageCalls[i].stage = "image"
  /\ Thrown(i)
  /\ UNCHANGED imageCache
  /\ UNCHANGED <<timelineVars, mergeVars, envVars, densifyVars, normVars, pageVars, columnVars>>

ImageNext ==
  \/ LoadPriorityData
  \/ \E i \in DOMAIN imageCalls : ResponseOk(i)
  \/ \E i \in DOMAIN imageCalls : ResponseFails(i)
  \/ \E i \in DOMAIN imageCalls : ImageLoads(i)
  \/ \E i \in DOMAIN imageCalls : ImageFails(i)

SpecImage == ImageInit /\ [][ImageNext]_vars

\* ================================================= the hook, column changing
\* useEnvironmentalData(column): the effect has [column] (layout.ts:
\* [column, db]) as dependencies and no cleanup function, so every change of
\* column starts another fetchData() while the earlier ones stay suspended.
\* Each call closes over its own column; setData of an unmounted component
\* does nothing.
MaxColumnChanges == 2
Columns == {"temp", "hum", "lux"}

\* the rows of one column, as fetchData formats them
SeriesOf(c) ==
  formattedPlain(<<[time |-> RowTime(1), isNull |-> c = "hum",
                    raw |-> IF c = "temp" THEN SampleValue ELSE SampleValue \div 2]>>)

ColumnInit ==
  /\ HarnessOff
  /\ EnvOff
  /\ DensifyOff
  /\ NormOff
  /\ PageOff
  /\ ImageOff
  /\ column \in Columns
  /\ mounted = TRUE
  /\ fetchCalls = <<[column |-> column]>>
  /\ shownData = <<>>
  /\ shownError = NoError
  /\ shownLoading = TRUE
  /\ columnChanges = 0
  /\ anyFailed = FALSE

\* the parent renders the hook's component with another column
ChangeColumn(c) ==
  /\ mounted
  /\ c # column
  /\ columnChanges < MaxColumnChanges
  /\ column' = c
  /\ fetchCalls' = Append(fetchCalls, [column |-> c])
  /\ columnChanges' = columnChanges + 1
  /\ UNCHANGED <<mounted, shownData, shownError, shownLoading, anyFailed>>
  /\ UNCHANGED <<timelineVars, mergeVars, envVars, densifyVars, normVars, pageVars, imageVars>>

Unmount ==
  /\ mounted
  /\ mounted' = FALSE
  /\ UNCHANGED <<column, fetchCalls, shownData, shownError, shownLoading, columnChanges,
                 anyFailed>>
  /\ UNCHANGED <<timelineVars, mergeVars, envVars, densifyVars, normVars, pageVars, imageVars>>

\* the i-th suspended call gets its answer and runs to its end:
\* setData(allData) or setError(...), then finally setLoading(false)
FetchSettles(i, failed) ==
  /\ i \in DOMAIN fetchCalls
  /\ fetchCalls' = RemoveAt(fetchCalls, i)
  /\ anyFailed' = (anyFailed \/ failed)
  /\ IF mounted
     THEN /\ shownData' = IF failed THEN shownData ELSE SeriesOf(fetchCalls[i].column)
          /\ shownError' = IF failed THEN "fetch failed" ELSE shownError
          /\ shownLoading' = FALSE
     ELSE UNCHANGED <<shownData, shownError, shownLoading>>
  /\ UNCHANGED <<column, mounted, columnChanges>>
  /\ UNCHANGED <<timelineVars, mergeVars, envVars, densifyVars, normVars, pageVars, imageVars>>

ColumnNext ==
  \/ \E c \in Columns : ChangeColumn(c)
  \/ Unmount
  \/ \E i \in DOMAIN fetchCalls, failed \in BOOLEAN : FetchSettles(i, failed)

SpecColumn == ColumnInit /\ [][ColumnNext]_vars

\* ================================================================ claims
\* every timestamp the batch gives one value for is held with that value
IncomingWins(incoming, merged) ==
  \A i \in DOMAIN incoming :
    (\A j \in DOMAIN incoming :
       incoming[j].timestamp = incoming[i].timestamp => incoming[j].value = incoming[i].value)
    => /\ \E k \in DOMAIN merged : merged[k].timestamp = incoming[i].timestamp
       /\ \A k \in DOMAIN merged :
            merged[k].timestamp = incoming[i].timestamp => merged[k].value = incoming[i].value

StrictlyIncreasing(series) ==
  \A i, j \in DOMAIN series : i < j => series[i].timestamp < series[j].timestamp

\* C1 (as claimed): in each of the three merge routines (mergeData, the
\* setData merge, the cached+new merge) a row of the incoming batch whose
\* timestamp is already held replaces the held value: the merged series
\* holds the incoming value at every incoming timestamp.
C1_IncomingWinsEverywhere ==
  mPc \in {"once", "twice"} => IncomingWins(mIncoming, mOnce)

\* C2: after any sequence of initial, boundary-triggered and preload
\* fetches every per-sensor series of the data state is strictly increasing
\* by timestamp (sorted ascending, no timestamp twice).
C2_SeriesStrictlyIncreasing ==
  \A s \in DOMAIN data : StrictlyIncreasing(data[s])

\* C2 witness: a page was merged into a series that already held samples
C2_Witness ==
  /\ last.op = "complete" /\ last.outcome = "ok" /\ last.origin # "mount"
  /\ Len(sensorDataOf(data)) > last.rows

\* C3: merging the same batch a second time changes nothing, for mergeData
\* and for the setData merge: merge(merge(S, B), B) = merge(S, B).
C3_MergeIdempotent ==
  (mPc = "twice" /\ mWhich \in {"mergeData", "setData"}) => mTwice = mOnce

\* C3 witness: the batch collides with a held timestamp under another value
\* and also brings a new timestamp, and it has been merged twice
C3_Witness ==
  /\ mPc = "twice" /\ mWhich = "mergeData"
  /\ \E i \in DOMAIN mIncoming, j \in DOMAIN mExisting :
       /\ mIncoming[i].timestamp = mExisting[j].timestamp
       /\ mIncoming[i].value # mExisting[j].value
  /\ \E i \in DOMAIN mIncoming :
       \A j \in DOMAIN mExisting : mIncoming[i].timestamp # mExisting[j].timestamp

\* ---- steps of the timeline, as seen by the properties
CompleteStep == \E i \in 1..MaxInflight, failed \in BOOLEAN : Complete(i, failed)

\* a boundary handler ran: the observer callback, handleScroll, or the
\* preload timer handleScroll had set
BoundaryCall ==
  \/ ObserverFire
  \/ \E isNearTop, isNearBottom, veryClose \in BOOLEAN :
       HandleScroll(isNearTop, isNearBottom, veryClose)
  \/ ScrollTimerFire

\* a boundary event at the very edge (the handler calls fetchSensorData at once)
EdgeEvent ==
  \/ ObserverFire
  \/ \E isNearTop, isNearBottom \in BOOLEAN : HandleScroll(isNearTop, isNearBottom, TRUE)

QueryStarted == Len(inflight') = Len(inflight) + 1

\* C4 (as claimed): at most one query of fetchSensorData awaits its
\* response at any moment.
C4_AtMostOneQueryInFlight == Len(inflight) <= 1

\* C5 (as claimed): with data held, nothing in flight and the throttle
\* window elapsed, a boundary event at the edge makes fetchSensorData issue a
\* query for the rows beyond that edge of the held series (after the newest
\* timestamp, or before the oldest).
C5_EdgeEventStartsQuery ==
  [][(/\ sensorDataOf(data) # <<>>
      /\ inflight = <<>>
      /\ sinceLastLoad = LoadingBuffer
      /\ EdgeEvent)
     => /\ Len(inflight') = 1
        /\ LET sensorData == sensorDataOf(data)
               q == inflight'[1].query
           IN \/ q.after = sensorData[Len(sensorData)].timestamp
              \/ q.before = sensorData[1].timestamp]_vars

\* C6: a query started by a boundary handler starts at least loadingBuffer
\* after the previous query a boundary handler started; a boundary event
\* inside the window (less than loadingBuffer since the last load) starts no
\* query; and a boundary event that starts no query leaves data and
\* dateRanges as they were.
C6_BoundaryLoadsThrottled ==
  [][BoundaryCall
     => /\ QueryStarted => sinceBoundaryLoad = LoadingBuffer
        /\ sinceLastLoad < LoadingBuffer => ~QueryStarted
        /\ ~QueryStarted => (data' = data /\ dateRanges' = dateRanges)]_vars

\* C6 witness: a boundary event arrived inside the window and was dropped
C6_Witness ==
  /\ last.op = "fetch" /\ last.origin \in BoundaryOrigins /\ last.outcome = "throttled"
  /\ sinceLastLoad < LoadingBuffer
  /\ sinceBoundaryLoad < LoadingBuffer

\* what a completed fetch leaves in preloadTimer
FollowUpSet ==
  /\ last'.outcome = "ok"
  /\ preloadTimer'.armed
  /\ preloadTimer'.after = last'.newest
NothingSet == preloadTimer' = preloadTimer

\* C7 (as claimed): a fetch of the observer rendition leaves a follow-up
\* page scheduled if and only if it returned exactly pageSize rows, whether
\* it was the initial fetch, a boundary-triggered fetch or a preload.
C7_FollowUpIffFullPage ==
  [][(variant = "observer" /\ CompleteStep)
     => IF last'.rows = PageSize THEN FollowUpSet ELSE NothingSet]_vars

\* C7 (amended): a fetch of the observer rendition leaves a follow-up page
\* scheduled if and only if it was not itself a preload and returned exactly
\* pageSize rows; a fetch of the scroll rendition schedules nothing.
C7_FollowUpIffFullPageAndNotPreload ==
  [][CompleteStep
     => IF variant = "observer" /\ last'.rows = PageSize /\ ~last'.isPreload
        THEN FollowUpSet ELSE NothingSet]_vars

\* C7 witness: a preload returned a full page and no follow-up is scheduled
C7_Witness ==
  /\ variant = "observer"
  /\ last.op = "complete" /\ last.isPreload /\ last.rows = PageSize
  /\ ~preloadTimer.armed

\* C8 (as claimed): the follow-up query of a full page is cursor-based: it
\* asks, ascending, only for rows later than the newest timestamp of the
\* page that scheduled it.
C8_FollowUpIsCursorBased ==
  \A i \in DOMAIN inflight :
    inflight[i].origin = "preload"
    => /\ inflight[i].query.ascending
       /\ inflight[i].query.after # NoDate
       /\ inflight[i].query.after = inflight[i].afterDate

\* the initial load is answered with a full page
InitialFullPage(i) ==
  /\ Complete(i, FALSE)
  /\ inflight[i].origin = "mount"
  /\ ~inflight[i].closure.hasRanges
  /\ Len(Rows(inflight[i].query)) = PageSize

InitialPageHeld(i) ==
  /\ isLoading /\ ~isLoading'
  /\ error' = NoError
  /\ \A s \in Sensors :
       /\ s \in DOMAIN data'
       /\ StrictlyIncreasing(data'[s])
       /\ {data'[s][k] : k \in DOMAIN data'[s]}
            = {Transform(Rows(inflight[i].query), s)[k] : k \in 1..PageSize}

CaughtUp ==
  last.op = "complete" /\ last.outcome \in {"ok", "empty"} /\ last.rows < PageSize

\* C10 (as claimed): once a fetch has returned fewer than pageSize rows and
\* no boundary event occurs, only finitely many more queries are issued:
\* from some moment on no query is in flight.
C10_QuiescentOnceCaughtUp ==
  <>CaughtUp => <>[](inflight = <<>>)

\* a query of fetchSensorData came back with an error
QueryFailed == CompleteStep /\ last'.outcome = "error"

\* C11: when a remote query fails, the error is stored, the loading flag of
\* the call becomes false, data, dateRanges and the cache entry stay as they
\* were, and nothing is scheduled that would query again (no query is put in
\* flight, no timer is set, the mount effect is not re-run, fetchData is at
\* its end).
C11_FailureKeepsStateAndStops ==
  [][/\ QueryFailed
        => /\ error' # NoError
           /\ IF last'.isPreload THEN ~isPreloading' ELSE ~isLoading'
           /\ data' = data /\ dateRanges' = dateRanges
           /\ Len(inflight') < Len(inflight)
           /\ preloadTimer' = preloadTimer
           /\ ~effectPending'
     /\ FetchReject
        => /\ envError' # NoError
           /\ ~loading'
           /\ envData' = envData /\ store' = store
           /\ envPc' = "done"]_vars

\* C11 witness: the incremental fetch over a filled cache has failed
C11_Witness ==
  /\ envLast = [op |-> "fetch", ok |-> FALSE]
  /\ store.present /\ Len(store.value) > 0
  /\ envError # NoError /\ ~loading

\* fetchData() is not suspended and nothing of the hook is pending
Settled == envPc \in {"done", "noDb"}

\* the sample the hook makes of a remote row
SampleOf(row) == [time |-> convertToLocalTime(row.time),
                  value |-> IF row.isNull THEN 0 ELSE row.raw]

Holds(series, sample) == \E k \in DOMAIN series : series[k] = sample

\* C12 (as claimed): a failure of the local store (opening it, reading the
\* entry, writing it) is not fatal: the load still ends with no error
\* reported, loading false, and the series processed from the remote fetch
\* exposed.
C12_StoreFailureIsCacheMiss ==
  (Settled /\ envLast.op \in {"initDB", "get", "put"} /\ ~envLast.ok)
  => /\ envError = NoError
     /\ ~loading
     /\ envData = processedData

\* C13 (as claimed): once the operations of a load have settled, whatever
\* their outcome, its loading flag is false: loading of the hook, isLoading
\* and isPreloading of the timeline.
C13_SettledMeansNotLoading ==
  /\ Settled => ~loading
  /\ (variant # "none" /\ inflight = <<>> /\ ~effectPending) => (~isLoading /\ ~isPreloading)

\* C14 (as claimed): over a non-empty cache entry the remote fetch is
\* incremental, asks only for rows later than the latest cached time, and
\* every cached sample is in the series exposed afterwards.
C14_IncrementalAfterCachedLatest ==
  /\ envPc = "fetchNew"
     => /\ startTime = LatestTime(cachedData)
        /\ \A i \in DOMAIN envRemote :
             envRemote[i].time > startTime
             => ~(\E k \in DOMAIN cachedData : cachedData[k].time = SampleOf(envRemote[i]).time)
  /\ (envPc = "done" /\ envError = NoError /\ Len(cachedData) > 0)
     => \A k \in DOMAIN cachedData : Holds(envData, cachedData[k])

\* C15: a load that merges new rows or fills an empty cache replaces the
\* entry by exactly the series it exposes; the entry is written only by the
\* step that follows a successful remote fetch; an entry is never removed.
C15_StoreEqualsExposedSeries ==
  [][/\ PutResolve => (store'.present /\ store'.value = envData')
     /\ store' # store => (envPc \in {"putNew", "putAll"} /\ envLast = [op |-> "fetch", ok |-> TRUE])
     /\ store.present => store'.present]_vars

\* C15 witness: new rows were merged into a filled cache and written
C15_Witness ==
  /\ envLast = [op |-> "put", ok |-> TRUE]
  /\ Len(cachedData) > 0
  /\ Len(store.value) > Len(cachedData)
  /\ store.value = envData

\* C16 (as claimed): for every sensor, dateRanges holds the least and the
\* greatest timestamp of the sensor's series.
C16_RangesAreMinMaxOfData ==
  \A s \in DOMAIN data :
    Len(data[s]) > 0
    => /\ s \in DOMAIN dateRanges
       /\ \A k \in DOMAIN data[s] :
            /\ dateRanges[s].earliest <= data[s][k].timestamp
            /\ data[s][k].timestamp <= dateRanges[s].latest
       /\ \E k \in DOMAIN data[s] : data[s][k].timestamp = dateRanges[s].earliest
       /\ \E k \in DOMAIN data[s] : data[s][k].timestamp = dateRanges[s].latest

\* C17 (as claimed): every sample of the stored entry is a row of the remote
\* table, with the value fetched for it.
C17_StoreHoldsOnlyFetchedSamples ==
  store.present
  => \A k \in DOMAIN store.value :
       \E i \in DOMAIN envRemote : store.value[k] = SampleOf(envRemote[i])

\* C18 (as claimed): interpolateData returns every sample it was given with
\* the value it was given, zero included, and leaves the given samples as
\* they were.
C18_ZeroNotSpecialCased ==
  envPc \in {"putNew", "putAll"}
  => /\ processedData = interpolateData(newData)
     /\ \A i \in DOMAIN newData : Holds(processedData, newData[i])
     /\ DataAfterInterpolate(newData) = newData

GeometryComputed == dPc \in {"geometry", "done"}
InterpolatedComputed == dPc \in {"interpolateData", "done"}

\* the calendar days from the first sample's day to the last sample's day
SpanDays(series) ==
  SetMin({dateKeyOf(series[i].time) : i \in DOMAIN series})
    ..SetMax({dateKeyOf(series[i].time) : i \in DOMAIN series})

\* C19: densify coverage.  Every day the densifier processes gets exactly one
\* value for each minute slot, and every day of a span of consecutive
\* calendar days gets its slots: the dense output has no missing slot.
C19_NoMissingSlot ==
  /\ (GeometryComputed /\ dInput # <<>>)
       => \A day \in SpanDays(dInput) :
            /\ Cardinality({k \in DOMAIN dGeometry : dGeometry[k].day = day}) = 1
            /\ \A k \in DOMAIN dGeometry : DOMAIN dGeometry[k].slots = Minutes
  /\ (InterpolatedComputed /\ dInput # <<>>)
       => \A day \in SpanDays(dInput) : \A minute \in Minutes :
            Cardinality({i \in DOMAIN dInterpolated :
                           dInterpolated[i].time = day * MINUTES_IN_DAY + minute}) = 1

\* the samples of the day a geometry row was built from
SampledMinutes(day) ==
  {minutesOf(dInput[i].time) : i \in {j \in DOMAIN dInput : dateKeyOf(dInput[j].time) = day}}
SampleAt(day, minute) ==
  dInput[CHOOSE i \in DOMAIN dInput : dInput[i].time = day * MINUTES_IN_DAY + minute].value

C21_EmptyDayTakesMidpoint ==
  (GeometryComputed /\ dInput # <<>>)
    => \A day \in SpanDays(dInput) :
         SampledMinutes(day) = {}
           => \E k \in DOMAIN dGeometry :
                /\ dGeometry[k].day = day
                /\ \A minute \in Minutes :
                     2 * dGeometry[k].slots[minute]
                       = getRange(dInput).minValue + getRange(dInput).maxValue

\* a number in [0, 100]
InUnitRange(normalized) ==
  /\ normalized.k = "num"
  /\ 0 <= normalized.a
  /\ normalized.a <= normalized.b

\* C22: normalizeValue(value, range, sensorId) is a number in [0,100] for
\* every finite value and every range with min < max, on the linear and on
\* the logarithmic scale; for null, NaN or an infinite value it is 0.
C22_NormalizeBounded ==
  nPc = "processed" =>
    \A i \in DOMAIN nOut :
      /\ InUnitRange(nOut[i].normalizedValue)
      /\ nOut[i].value.k # "num" => nOut[i].normalizedValue.a = 0

\* a gas value strictly inside its range, normalized strictly inside [0,100]
C22_Witness ==
  /\ nPc = "processed"
  /\ nSensor = "gas"
  /\ \E i \in DOMAIN nOut :
       /\ nOut[i].value.k = "num"
       /\ 0 < nOut[i].normalizedValue.a
       /\ nOut[i].normalizedValue.a < nOut[i].normalizedValue.b

\* the smaller value has the smaller or equal normalized value, both numbers
Monotone(out) ==
  \A i, j \in DOMAIN out :
    (out[i].value.k = "num" /\ out[j].value.k = "num" /\ out[i].value.n < out[j].value.n)
      => /\ out[i].normalizedValue.k = "num"
         /\ out[j].normalizedValue.k = "num"
         /\ out[i].normalizedValue.a * out[j].normalizedValue.b
              <= out[j].normalizedValue.a * out[i].normalizedValue.b

\* C23: for a fixed descriptor normalization is monotone, v1 < v2 implies
\* normalize(v1) <= normalize(v2), on the linear and the logarithmic scale,
\* values outside the range and at or below the log epsilon included.
C23_NormalizeMonotone ==
  (nPc = "processed" \/ (nPc = "normalized" /\ nSensor \in Configured)) => Monotone(nOut)

C25_NormalizedDataBounded ==
  ((nPc = "normalized" /\ nSensor \in Configured) \/ nPc = "normalizedD3")
    => \A i \in DOMAIN nOut : InUnitRange(nOut[i].normalizedValue)

\* C27: while a non-preload remote query of fetchSensorData is outstanding
\* isLoading is true: no other call that returns early or completes sets
\* it to false before that query settles.
C27_LoadingWhileQueryOutstanding ==
  (\E i \in DOMAIN inflight : ~inflight[i].isPreload) => isLoading

\* the incremental fetch resolves with no row whose timestamp is new
NoNewRowFetched ==
  /\ envPc = "fetchNew"
  /\ envLast'.op = "fetch" /\ envLast'.ok
  /\ \A i \in DOMAIN fetchDataFromSupabase(envRemote, startTime) :
       \E j \in DOMAIN cachedData :
         cachedData[j].time = fetchDataFromSupabase(envRemote, startTime)[i].time

\* C29: when the incremental fetch returns no row whose timestamp is absent
\* from the cached series, the local store is not written and exactly the
\* cached series (same samples, same order) is exposed.
C29_NoNewDataKeepsCache ==
  [][NoNewRowFetched => (store' = store /\ envData' = cachedData /\ envData' = store.value
                         /\ envPc' = "done")]_vars

\* fetchData ended in the no-new-data branch although rows came back
C29_Witness ==
  /\ envPc = "done"
  /\ envLast = [op |-> "fetch", ok |-> TRUE]
  /\ cachedData # <<>>
  /\ envData = cachedData
  /\ fetchDataFromSupabase(envRemote, startTime) # <<>>

\* every matching row once, converted
EveryRowOnce(allData, selected) ==
  /\ Len(allData) = Len(selected)
  /\ \A i \in DOMAIN selected :
       Cardinality({j \in DOMAIN allData :
                      allData[j].time = (IF pOrdered THEN selected[i].time
                                         ELSE convertToLocalTime(selected[i].time))}) = 1

\* C28: the page loop of fetchDataFromSupabase terminates for every finite
\* table and returns every matching row exactly once, in page order: it stops
\* after the first page that is short or empty, and when a page fails it
\* throws, so that no partial result is exposed.
C28_PageLoopReturnsEveryRowOnce ==
  /\ pRequests <= Len(matching(pTable, pFrom)) \div FetchPageSize + 1
  /\ pPc \in {"returned", "settled"}
       => /\ EveryRowOnce(pAllData, matching(pTable, pFrom))
          /\ pRequests = Len(matching(pTable, pFrom)) \div FetchPageSize + 1
  /\ pPc = "settled" => pExposed = pAllData
  /\ pPc \in {"thrown", "failed"} => pExposed = <<>>

\* C30: image preloader.  For each period, once every request started for
\* it has settled its isLoading flag is false, also when the priority daily
\* request fails and the component falls back to cumulative.
C30_SettledPeriodNotLoading ==
  imagePc # "off" =>
    \A period \in Periods :
      (\A i \in DOMAIN imageCalls : imageCalls[i].period # period)
        => ~preloadState[period].isLoading

\* C26: a fetch result that arrives after its request stopped being current
\* is discarded: once all outstanding fetches have settled (none having
\* failed), the data exposed by the mounted hook is the series of the current
\* column, whatever order the responses arrived in.
C26_SettledDataIsCurrentColumn ==
  (mounted /\ column \in Columns /\ fetchCalls = <<>> /\ ~anyFailed)
    => shownData = SeriesOf(column)

====
